---------------------------- MODULE Spec2Model ----------------------------
(***************************************************************************)
(* Explaino frontend: the effect timing and transform engine               *)
(* (utils/effectProcessor), the instruction generator and validator       *)
(* (utils/instructionGenerator), the batch submission (services/api) and  *)
(* the VideoEffectPreview component that drives them.                     *)
(*                                                                         *)
(* JavaScript numbers are modelled as exact rationals <<n, d>> in lowest  *)
(* terms with d > 0, extended with the IEEE special values a division by  *)
(* zero produces: <<1, 0>> is +Infinity, <<-1, 0>> is -Infinity and       *)
(* <<0, 0>> is NaN.  Rounding of binary floating point and the sign of    *)
(* zero are not modelled.  The numbers the program is given (times, pixel *)
(* coordinates, dimensions) are integers; times are whole playback ticks. *)
(***************************************************************************)
EXTENDS Integers, Sequences, FiniteSets, TLC

VARIABLES
    instructions,         \* the instructions prop: NULL or [displayEffects |-> <<...>>]
    video,                \* the <video> element: readyState, videoWidth, videoHeight, currentTime, paused, ended
    recordingDimensions,  \* useState(null)
    normalizedEffects,    \* useState([])
    rafRef,               \* rafRef.current: "null", or the id of a callback that is pending ("live") or not ("stale")
    rafQueue,             \* the animation-frame callbacks requested and neither run nor cancelled, in request order: for each, the effect list its renderFrame closes over
    listeners,            \* the displayEffects lists whose handleMetadata listens for loadedmetadata, in registration order
    loopEffects,          \* the normalizedEffects the current run of the render-loop effect closes over
    mounted,              \* whether the component is mounted
    audioSrc,             \* whether the audioSrc prop is given, so that the <audio> element is rendered
    isPlaying,            \* useState(false)
    durationState,        \* the duration state, useState(0)
    transform,            \* videoLayerRef.current.style.transform
    rendered,             \* the last renderFrame: its time, its effect list, the active effects, the effect it drew from
    exportStatus,         \* useState({loading, error, success})
    requests,             \* the payloads POSTed to /render/zoom/batch, in order
    settled,              \* how many of those requests have settled
    proc,                 \* ProcessingPage: its state and what it waits for
    sess,                 \* RecordingSessionPage: its player state and its two media elements
    fnCall,               \* the pure function applied last and its arguments
    fnRet                 \* what that application returned

vars == <<instructions, video, recordingDimensions, normalizedEffects, rafRef, rafQueue,
          listeners, loopEffects, mounted, audioSrc, isPlaying, durationState,
          transform, rendered, exportStatus, requests, settled, proc, sess, fnCall, fnRet>>

fnVars == <<fnCall, fnRet>>

\* The two pages next to the preview.
pageVars == <<proc, sess>>

\* VideoEffectPreview's props, state, refs and elements, and the two pages.
compVars == <<instructions, video, recordingDimensions, normalizedEffects, rafRef, rafQueue,
              listeners, loopEffects, mounted, audioSrc, isPlaying, durationState,
              transform, rendered, exportStatus, requests, settled, pageVars>>

\* The render loop's handle and its pending callbacks.
loopVars == <<rafRef, rafQueue>>

\* What the audio sync effect's listeners set.
playerVars == <<isPlaying, durationState>>

\* What an export writes.
exportVars == <<exportStatus, requests, settled>>

\* The number of animation-frame callbacks requested and neither run nor cancelled.
rafPending == Len(rafQueue)

\* JavaScript null / undefined for a value that is otherwise an object.
NULL == [null |-> TRUE]

-----------------------------------------------------------------------------
(* Bounds of the model *)

\* Playback times run over 0..MaxTime ticks.
MaxTime == 5
\* The longest displayEffects list.
MaxEffects == 2

-----------------------------------------------------------------------------
(* JavaScript number arithmetic *)

RECURSIVE GCD(_, _)
GCD(a, b) == IF b = 0 THEN a ELSE GCD(b, a % b)

Abs(i) == IF i < 0 THEN -i ELSE i

\* n/d with d # 0, in lowest terms with a positive denominator.
Norm(n, d) ==
    LET g == GCD(Abs(n), Abs(d))
        s == IF d < 0 THEN -1 ELSE 1
    IN  <<(s * n) \div g, (s * d) \div g>>

JNaN == <<0, 0>>
JInf == <<1, 0>>
JNum(i) == <<i, 1>>
JRat(n, d) == Norm(n, d)
IsNaN(a) == a = JNaN
IsFinite(a) == a[2] > 0
Sign(a) == IF a[1] > 0 THEN 1 ELSE IF a[1] < 0 THEN -1 ELSE 0

JNeg(a) == <<-a[1], a[2]>>

JAdd(a, b) ==
    IF IsNaN(a) \/ IsNaN(b) THEN JNaN
    ELSE IF IsFinite(a) /\ IsFinite(b) THEN Norm(a[1] * b[2] + b[1] * a[2], a[2] * b[2])
    ELSE IF IsFinite(b) THEN a
    ELSE IF IsFinite(a) THEN b
    ELSE IF a = b THEN a ELSE JNaN

JSub(a, b) == JAdd(a, JNeg(b))

JMul(a, b) ==
    IF IsNaN(a) \/ IsNaN(b) THEN JNaN
    ELSE IF IsFinite(a) /\ IsFinite(b) THEN Norm(a[1] * b[1], a[2] * b[2])
    ELSE IF Sign(a) * Sign(b) = 0 THEN JNaN
    ELSE <<Sign(a) * Sign(b), 0>>

JDiv(a, b) ==
    IF IsNaN(a) \/ IsNaN(b) THEN JNaN
    ELSE IF IsFinite(b) /\ b[1] # 0
         THEN IF IsFinite(a) THEN Norm(a[1] * b[2], a[2] * b[1])
              ELSE <<Sign(a) * Sign(b), 0>>
    ELSE IF IsFinite(b)
         THEN IF Sign(a) = 0 THEN JNaN ELSE <<Sign(a), 0>>
    ELSE IF IsFinite(a) THEN JNum(0) ELSE JNaN

\* Every comparison with NaN is false.
JLt(a, b) ==
    IF IsNaN(a) \/ IsNaN(b) THEN FALSE
    ELSE IF ~IsFinite(a) /\ ~IsFinite(b) THEN a[1] < b[1]
    ELSE a[1] * b[2] < b[1] * a[2]

JLe(a, b) == ~IsNaN(a) /\ ~IsNaN(b) /\ (a = b \/ JLt(a, b))
JGt(a, b) == JLt(b, a)
JGe(a, b) == JLe(b, a)

MathMax(a, b) == IF IsNaN(a) \/ IsNaN(b) THEN JNaN ELSE IF JLt(a, b) THEN b ELSE a
MathMin(a, b) == IF IsNaN(a) \/ IsNaN(b) THEN JNaN ELSE IF JLt(b, a) THEN b ELSE a
MathPow3(a) == JMul(a, JMul(a, a))

\* JavaScript truthiness of a number: 0 and NaN are falsy.
Truthy(a) == ~IsNaN(a) /\ a # JNum(0)

-----------------------------------------------------------------------------
(* utils/effectProcessor *)

\* The auto-scale tiers with the middle tier spanning 0.5 instead of 0.3.
autoScale_SteepMiddleTier(effectiveRatio) ==
    LET tiered ==
            IF JLt(effectiveRatio, JRat(1, 100))
            THEN JAdd(JRat(3, 2),
                      JMul(JDiv(JSub(JRat(1, 100), effectiveRatio), JRat(1, 100)), JRat(1, 2)))
            ELSE IF JLt(effectiveRatio, JRat(1, 10))
            THEN JAdd(JRat(6, 5),
                      JMul(JDiv(JSub(JRat(1, 10), effectiveRatio), JRat(9, 100)), JRat(1, 2)))
            ELSE IF JLt(effectiveRatio, JRat(1, 2))
            THEN JAdd(JNum(1),
                      JMul(JDiv(JSub(JRat(1, 2), effectiveRatio), JRat(2, 5)), JRat(1, 5)))
            ELSE JNum(1)
    IN  MathMax(JNum(1), MathMin(JRat(5, 2), tiered))

\* The auto-scale tiers with the large tier divided by 0.5 instead of 0.4.
autoScale_WideLargeTier(effectiveRatio) ==
    LET tiered ==
            IF JLt(effectiveRatio, JRat(1, 100))
            THEN JAdd(JRat(3, 2),
                      JMul(JDiv(JSub(JRat(1, 100), effectiveRatio), JRat(1, 100)), JRat(1, 2)))
            ELSE IF JLt(effectiveRatio, JRat(1, 10))
            THEN JAdd(JRat(6, 5),
                      JMul(JDiv(JSub(JRat(1, 10), effectiveRatio), JRat(9, 100)), JRat(3, 10)))
            ELSE IF JLt(effectiveRatio, JRat(1, 2))
            THEN JAdd(JNum(1),
                      JMul(JDiv(JSub(JRat(1, 2), effectiveRatio), JRat(1, 2)), JRat(1, 5)))
            ELSE JNum(1)
    IN  MathMax(JNum(1), MathMin(JRat(5, 2), tiered))

\* The if-chain that sets autoScale from effectiveRatio, and the clamp.
autoScale(effectiveRatio) ==
    LET tiered ==
            IF JLt(effectiveRatio, JRat(1, 100))
            THEN JAdd(JRat(3, 2),
                      JMul(JDiv(JSub(JRat(1, 100), effectiveRatio), JRat(1, 100)), JRat(1, 2)))
            ELSE IF JLt(effectiveRatio, JRat(1, 10))
            THEN JAdd(JRat(6, 5),
                      JMul(JDiv(JSub(JRat(1, 10), effectiveRatio), JRat(9, 100)), JRat(3, 10)))
            ELSE IF JLt(effectiveRatio, JRat(1, 2))
            THEN JAdd(JNum(1),
                      JMul(JDiv(JSub(JRat(1, 2), effectiveRatio), JRat(2, 5)), JRat(1, 5)))
            ELSE JNum(1)
    IN  MathMax(JNum(1), MathMin(JRat(5, 2), tiered))

\* The normalization that divides each centre by the other dimension.
normalizeCoordinates_AnchorSwapped(bounds, recordingWidth, recordingHeight, videoWidth, videoHeight) ==
    LET centerX == JAdd(JNum(bounds.x), JDiv(JNum(bounds.width), JNum(2)))
        centerY == JAdd(JNum(bounds.y), JDiv(JNum(bounds.height), JNum(2)))
        anchorX == JDiv(centerX, JNum(recordingHeight))
        anchorY == JDiv(centerY, JNum(recordingWidth))
        boundingBoxArea == JMul(JNum(bounds.width), JNum(bounds.height))
        screenArea == JMul(JNum(recordingWidth), JNum(recordingHeight))
        areaRatio == JDiv(boundingBoxArea, screenArea)
        widthRatio == JDiv(JNum(bounds.width), JNum(recordingWidth))
        heightRatio == JDiv(JNum(bounds.height), JNum(recordingHeight))
        dominantRatio == MathMax(widthRatio, heightRatio)
        effectiveRatio == MathMax(areaRatio, dominantRatio)
        scale == autoScale(effectiveRatio)
    IN  [centerX |-> centerX, centerY |-> centerY,
         anchorX |-> anchorX, anchorY |-> anchorY,
         autoScale |-> scale,
         startScale |-> JNum(1), endScale |-> scale,
         areaRatio |-> areaRatio, widthRatio |-> widthRatio,
         heightRatio |-> heightRatio, dominantRatio |-> dominantRatio,
         effectiveRatio |-> effectiveRatio] @@ bounds

\* The fields normalizeCoordinates derives; the result spreads bounds first,
\* so a derived field overrides a field of the same name in bounds.
normalizeCoordinates(bounds, recordingWidth, recordingHeight, videoWidth, videoHeight) ==
    LET centerX == JAdd(JNum(bounds.x), JDiv(JNum(bounds.width), JNum(2)))
        centerY == JAdd(JNum(bounds.y), JDiv(JNum(bounds.height), JNum(2)))
        anchorX == JDiv(centerX, JNum(recordingWidth))
        anchorY == JDiv(centerY, JNum(recordingHeight))
        boundingBoxArea == JMul(JNum(bounds.width), JNum(bounds.height))
        screenArea == JMul(JNum(recordingWidth), JNum(recordingHeight))
        areaRatio == JDiv(boundingBoxArea, screenArea)
        widthRatio == JDiv(JNum(bounds.width), JNum(recordingWidth))
        heightRatio == JDiv(JNum(bounds.height), JNum(recordingHeight))
        dominantRatio == MathMax(widthRatio, heightRatio)
        effectiveRatio == MathMax(areaRatio, dominantRatio)
        scale == autoScale(effectiveRatio)
    IN  [centerX |-> centerX, centerY |-> centerY,
         anchorX |-> anchorX, anchorY |-> anchorY,
         autoScale |-> scale,
         startScale |-> JNum(1), endScale |-> scale,
         areaRatio |-> areaRatio, widthRatio |-> widthRatio,
         heightRatio |-> heightRatio, dominantRatio |-> dominantRatio,
         effectiveRatio |-> effectiveRatio] @@ bounds

\* The easing whose second branch forgets to halve the cube.
easeInOutCubic_NoHalving(t) ==
    IF JLt(t, JRat(1, 2))
    THEN JMul(JNum(4), MathPow3(t))
    ELSE JSub(JNum(1), MathPow3(JAdd(JMul(JNum(-2), t), JNum(2))))

easeInOutCubic(t) ==
    IF JLt(t, JRat(1, 2))
    THEN JMul(JNum(4), MathPow3(t))
    ELSE JSub(JNum(1), JDiv(MathPow3(JAdd(JMul(JNum(-2), t), JNum(2))), JNum(2)))

\* The progress that stays at 1 from the end of the window on.
computeEffectProgress_HoldAfterEnd(currentTime, start, end, easeInPercent, easeOutPercent) ==
    LET duration == JNum(end - start)
        t == JDiv(JNum(currentTime - start), duration)
        easeInEnd == easeInPercent
        easeOutStart == JSub(JNum(1), easeOutPercent)
    IN  IF JLe(t, JNum(0)) THEN JNum(0)
        ELSE IF JGe(t, JNum(1)) THEN JNum(1)
        ELSE IF JLt(t, easeInEnd) THEN easeInOutCubic(JDiv(t, easeInEnd))
        ELSE IF JGt(t, easeOutStart) THEN easeInOutCubic(JDiv(JSub(JNum(1), t), easeOutPercent))
        ELSE JNum(1)

\* The progress whose ease-out ramp is a straight line instead of the cubic.
computeEffectProgress_LinearEaseOut(currentTime, start, end, easeInPercent, easeOutPercent) ==
    LET duration == JNum(end - start)
        t == JDiv(JNum(currentTime - start), duration)
        easeInEnd == easeInPercent
        easeOutStart == JSub(JNum(1), easeOutPercent)
    IN  IF JLe(t, JNum(0)) THEN JNum(0)
        ELSE IF JGe(t, JNum(1)) THEN JNum(0)
        ELSE IF JLt(t, easeInEnd) THEN easeInOutCubic(JDiv(t, easeInEnd))
        ELSE IF JGt(t, easeOutStart) THEN JDiv(JSub(JNum(1), t), easeOutPercent)
        ELSE JNum(1)

computeEffectProgress(currentTime, start, end, easeInPercent, easeOutPercent) ==
    LET duration == JNum(end - start)
        t == JDiv(JNum(currentTime - start), duration)
        easeInEnd == easeInPercent
        easeOutStart == JSub(JNum(1), easeOutPercent)
    IN  IF JLe(t, JNum(0)) THEN JNum(0)
        ELSE IF JGe(t, JNum(1)) THEN JNum(0)
        ELSE IF JLt(t, easeInEnd) THEN easeInOutCubic(JDiv(t, easeInEnd))
        ELSE IF JGt(t, easeOutStart) THEN easeInOutCubic(JDiv(JSub(JNum(1), t), easeOutPercent))
        ELSE JNum(1)

\* The transform that translates by the whole scale instead of scale - 1.
calculateZoomTransform_TranslateByScale(progress, centerX, centerY, targetScale) ==
    LET scale == JAdd(JNum(1), JMul(JSub(targetScale, JNum(1)), progress))
        translateX == JMul(JNeg(centerX), scale)
        translateY == JMul(JNeg(centerY), scale)
    IN  [scale |-> scale, translateX |-> translateX, translateY |-> translateY]

calculateZoomTransform(progress, centerX, centerY, targetScale) ==
    LET scale == JAdd(JNum(1), JMul(JSub(targetScale, JNum(1)), progress))
        translateX == JMul(JNeg(centerX), JSub(scale, JNum(1)))
        translateY == JMul(JNeg(centerY), JSub(scale, JNum(1)))
    IN  [scale |-> scale, translateX |-> translateX, translateY |-> translateY]

\* The filter with the end of the window excluded.
getActiveEffects_EndExclusive(effects, currentTime) ==
    SelectSeq(effects, LAMBDA effect :
        currentTime >= effect.start /\ currentTime < effect.end)

getActiveEffects(effects, currentTime) ==
    SelectSeq(effects, LAMBDA effect :
        currentTime >= effect.start /\ currentTime <= effect.end)

\* The CSS string `translate(${translateX}px, ${translateY}px) scale(${scale})`,
\* kept as its three numbers in the order they are printed.
buildTransformString(translateX, translateY, scale) ==
    <<"translate", translateX, translateY, "scale", scale>>

\* Array.prototype.reduce without an initial value: the first element seeds
\* the accumulator and the callback runs on the rest, left to right.
RECURSIVE reduceLatest(_, _, _)
reduceLatest(effects, i, latest) ==
    IF i > Len(effects) THEN latest
    ELSE reduceLatest(effects, i + 1,
                      IF effects[i].start > latest.start THEN effects[i] ELSE latest)

\* The reduce with the comparison turned round: the earliest start wins.
RECURSIVE reduceEarliest(_, _, _)
reduceEarliest(effects, i, latest) ==
    IF i > Len(effects) THEN latest
    ELSE reduceEarliest(effects, i + 1,
                        IF effects[i].start < latest.start THEN effects[i] ELSE latest)

\* The reduce that lets an equal start replace the accumulator: among equal
\* starts the last one wins.
RECURSIVE reduceLatestOrEqual(_, _, _)
reduceLatestOrEqual(effects, i, latest) ==
    IF i > Len(effects) THEN latest
    ELSE reduceLatestOrEqual(effects, i + 1,
                             IF effects[i].start >= latest.start THEN effects[i] ELSE latest)

resolveZoomEffect_LastTieWins(effects) ==
    IF Len(effects) = 0 THEN NULL
    ELSE reduceLatestOrEqual(effects, 2, effects[1])

resolveZoomEffect_EarliestWins(effects) ==
    IF Len(effects) = 0 THEN NULL
    ELSE reduceEarliest(effects, 2, effects[1])

resolveZoomEffect(effects) ==
    IF Len(effects) = 0 THEN NULL
    ELSE reduceLatest(effects, 2, effects[1])

-----------------------------------------------------------------------------
(* utils/instructionGenerator *)

\* effect.target?.bounds && effect.style?.zoom?.enabled
HasZoomBounds(effect) ==
    /\ "bounds" \in DOMAIN effect.target
    /\ effect.style.zoom.enabled

\* One instruction per display effect with a bounding box and zoom enabled:
\* effect, startTimeMs, durationMs, frame and the original bounding box.
generateZoomInstructions(displayEffects, frame) ==
    LET filtered == SelectSeq(displayEffects, HasZoomBounds)
    IN  [i \in 1..Len(filtered) |->
            [effect |-> "zoom",
             startTimeMs |-> filtered[i].start * 1000,
             durationMs |-> (filtered[i].end - filtered[i].start) * 1000,
             frame |-> frame,
             boundingBox |-> filtered[i].target.bounds]]

\* The validation that compares the box origin, not its far edge, with the frame.
validateZoomInstruction_OriginOnly(instruction) ==
    LET box == instruction.boundingBox
        frame == instruction.frame
        errors ==
            {f \in {"frame.width"} : ~("width" \in DOMAIN frame /\ frame.width > 0)}
            \cup {f \in {"frame.height"} : ~("height" \in DOMAIN frame /\ frame.height > 0)}
            \cup {f \in {"durationMs"} : instruction.durationMs <= 0}
            \cup {f \in {"boundingBox.width"} : box.width <= 0}
            \cup {f \in {"boundingBox.height"} : box.height <= 0}
            \cup {f \in {"boundingBox.x"} :
                    box.x < 0 \/ ("width" \in DOMAIN frame /\ box.x > frame.width)}
            \cup {f \in {"boundingBox.y"} :
                    box.y < 0 \/ ("height" \in DOMAIN frame /\ box.y > frame.height)}
    IN  [valid |-> errors = {}, errors |-> errors]

\* The errors name the field that breaks a rule.
validateZoomInstruction(instruction) ==
    LET box == instruction.boundingBox
        frame == instruction.frame
        errors ==
            {f \in {"frame.width"} : ~("width" \in DOMAIN frame /\ frame.width > 0)}
            \cup {f \in {"frame.height"} : ~("height" \in DOMAIN frame /\ frame.height > 0)}
            \cup {f \in {"durationMs"} : instruction.durationMs <= 0}
            \cup {f \in {"boundingBox.width"} : box.width <= 0}
            \cup {f \in {"boundingBox.height"} : box.height <= 0}
            \cup {f \in {"boundingBox.x"} :
                    box.x < 0 \/ ("width" \in DOMAIN frame /\ box.x + box.width > frame.width)}
            \cup {f \in {"boundingBox.y"} :
                    box.y < 0 \/ ("height" \in DOMAIN frame /\ box.y + box.height > frame.height)}
    IN  [valid |-> errors = {}, errors |-> errors]

AllowedKeys == {"effect", "startTimeMs", "durationMs", "frame", "boundingBox"}
AllowedFrameKeys == {"width", "height"}
AllowedBoxKeys == {"x", "y", "width", "height"}

\* The violations are the keys outside the allowed sets, nested ones prefixed.
checkInstructionPurity(instruction) ==
    LET violations ==
            (DOMAIN instruction \ AllowedKeys)
            \cup {"frame." \o k : k \in DOMAIN instruction.frame \ AllowedFrameKeys}
            \cup {"boundingBox." \o k : k \in DOMAIN instruction.boundingBox \ AllowedBoxKeys}
    IN  [clean |-> violations = {}, violations |-> violations]

-----------------------------------------------------------------------------
(* services/api *)

\* The body whose shared frame comes from the last instruction.
BatchPayload_LastFrame(instrs) ==
    [inputVideoPath |-> "video.webm",
     frame |-> instrs[Len(instrs)].frame,
     effects |-> [i \in 1..Len(instrs) |->
                    [startTimeMs |-> instrs[i].startTimeMs,
                     durationMs |-> instrs[i].durationMs,
                     boundingBox |-> instrs[i].boundingBox]]]

\* The body POSTed to /render/zoom/batch.
BatchPayload(instrs) ==
    [inputVideoPath |-> "video.webm",
     frame |-> instrs[1].frame,
     effects |-> [i \in 1..Len(instrs) |->
                    [startTimeMs |-> instrs[i].startTimeMs,
                     durationMs |-> instrs[i].durationMs,
                     boundingBox |-> instrs[i].boundingBox]]]

\* Up to the fetch: either it throws before any request, or one request leaves.
submitBatchZoomInstructions(instrs) ==
    IF Len(instrs) = 0
    THEN [threw |-> TRUE, message |-> "No instructions to send", sent |-> <<>>]
    ELSE [threw |-> FALSE, message |-> "", sent |-> <<BatchPayload(instrs)>>]

-----------------------------------------------------------------------------
(* The inputs of the model *)

BoxA == [x |-> 120, y |-> 60, width |-> 50, height |-> 8]
BoxB == [x |-> 20, y |-> 20, width |-> 20, height |-> 10]
BoxTiny == [x |-> 0, y |-> 0, width |-> 2, height |-> 1]
\* A box that starts left of the frame.
BoxOut == [x |-> -5, y |-> 60, width |-> 50, height |-> 8]
\* A box object that carries a preview value next to its four fields.
BoxLeak == [x |-> 120, y |-> 60, width |-> 50, height |-> 8, scale |-> 2]

Effect(start, end, target, enabled) ==
    [start |-> start, end |-> end, target |-> target,
     style |-> [zoom |-> [enabled |-> enabled, scale |-> 2]]]

EffectPool ==
    { Effect(0, 5, [bounds |-> BoxA], TRUE),
      Effect(2, 4, [bounds |-> BoxB], TRUE),
      Effect(0, 3, [bounds |-> BoxTiny], TRUE),
      Effect(3, 3, [bounds |-> BoxB], TRUE),
      Effect(1, 4, [bounds |-> BoxOut], TRUE),
      Effect(1, 4, [bounds |-> BoxA], FALSE),
      Effect(1, 4, [selector |-> "button"], TRUE),
      Effect(1, 4, [bounds |-> BoxLeak], TRUE) }

SeqsUpTo(S, n) == UNION {[1..k -> S] : k \in 0..n}

\* null, an object without displayEffects, or a displayEffects list.
InstructionsSet ==
    {NULL, [version |-> 1]}
    \cup {[displayEffects |-> s] : s \in SeqsUpTo(EffectPool, MaxEffects)}

\* videoWidth x videoHeight once the metadata is there; 0 x 0 for a file
\* without a video track.
VideoDims == {<<0, 0>>, <<400, 200>>}

\* How the backend may answer a batch request.
Responses == {"ok", "httpError"}

\* The display effect whose bounding box, when it has one, is a plain box:
\* the four fields x, y, width, height and nothing else.
PlainEffect(effect) ==
    "bounds" \in DOMAIN effect.target =>
        DOMAIN effect.target.bounds = {"x", "y", "width", "height"}

-----------------------------------------------------------------------------
(* components/VideoEffectPreview: state after mount *)

HasDisplayEffects(instr) == "displayEffects" \in DOMAIN instr

IdentityTransform == <<"translate", JNum(0), JNum(0), "scale", JNum(1)>>

\* The normalization effect on mount and on every change of the instructions
\* prop: without displayEffects it returns early; with them it registers one
\* more handleMetadata, which closes over that list and is never removed.
registered(instr, ls) ==
    IF HasDisplayEffects(instr) THEN Append(ls, instr.displayEffects) ELSE ls

\* The state after the first render and its effects.  The video has no
\* metadata yet, so the normalization effect only registers its listener; the
\* render-loop effect closes over the empty list and requests no frame.
InitComponent ==
    /\ video = [readyState |-> 0, videoWidth |-> 0, videoHeight |-> 0,
                currentTime |-> 0, paused |-> TRUE, ended |-> FALSE]
    /\ recordingDimensions = NULL
    /\ normalizedEffects = <<>>
    /\ listeners = registered(instructions, <<>>)
    /\ loopEffects = <<>>
    /\ rafRef = "null"
    /\ rafQueue = <<>>
    /\ mounted = TRUE
    /\ isPlaying = FALSE
    /\ durationState = 0
    /\ transform = <<>>
    /\ rendered = [frames |-> 0]
    /\ exportStatus = [loading |-> FALSE, error |-> NULL, success |-> NULL]
    /\ requests = <<>>
    /\ settled = 0

\* "Fetch results when processing completes" is handed to useState, not to
\* useEffect: React calls the function once, as an initializer during the
\* first render, and ignores the dependency list.  Called with completed and
\* a session id it would start getCompleteRecording.
fetchResults(completed, sessionId) ==
    IF completed /\ sessionId # 0 THEN "pending" ELSE "idle"

\* ProcessingPage after mount: nothing selected, nothing running, no session
\* (sessionId 0 is null), the health check under way; the initializer above
\* has run with completed false and sessionId null.
InitProcessingPage ==
    proc = [file |-> FALSE, sessionId |-> 0, processing |-> FALSE, results |-> "null",
            error |-> "null", backendStatus |-> "null", progress |-> 0,
            completed |-> FALSE,
            reader |-> "idle", request |-> "idle",
            fetch |-> fetchResults(FALSE, 0)]

\* RecordingSessionPage once its sync effect has run: both media paused at 0,
\* no play() called yet, no Promise.all waiting.
InitRecordingSessionPage ==
    sess = [isPlaying |-> FALSE,
            video |-> [paused |-> TRUE, ended |-> FALSE, currentTime |-> 0,
                       endedEvent |-> FALSE, play |-> "none"],
            audio |-> [paused |-> TRUE, play |-> "none"],
            settling |-> 0]

InitPages == InitProcessingPage /\ InitRecordingSessionPage

\* The preview mounted with an audio track.
Init ==
    /\ instructions \in InstructionsSet
    /\ audioSrc = TRUE
    /\ InitComponent
    /\ InitPages
    /\ fnCall = [op |-> "none"]
    /\ fnRet = NULL

-----------------------------------------------------------------------------
(* components/VideoEffectPreview: normalization on loadedmetadata *)

\* The preview filter that forgets the zoom switch.
filtered_AnyWithBounds(displayEffects) ==
    SelectSeq(displayEffects, LAMBDA effect : "bounds" \in DOMAIN effect.target)

\* instructions.displayEffects.filter(effect.target?.bounds && effect.style?.zoom?.enabled)
filtered(displayEffects) ==
    SelectSeq(displayEffects,
              LAMBDA effect : "bounds" \in DOMAIN effect.target /\ effect.style.zoom.enabled)

\* The map that normalizes the first filtered effect only.
normalized_FirstOnly(displayEffects, recordingWidth, recordingHeight) ==
    LET f == filtered(displayEffects)
    IN  [i \in 1..(IF Len(f) > 0 THEN 1 ELSE 0) |->
            [normalizedBounds |->
                normalizeCoordinates(f[i].target.bounds, recordingWidth, recordingHeight,
                                     recordingWidth, recordingHeight)] @@ f[i]]

\* filtered.map(effect => ({...effect, normalizedBounds}))
normalized(displayEffects, recordingWidth, recordingHeight) ==
    LET f == filtered(displayEffects)
    IN  [i \in 1..Len(f) |->
            [normalizedBounds |->
                normalizeCoordinates(f[i].target.bounds, recordingWidth, recordingHeight,
                                     recordingWidth, recordingHeight)] @@ f[i]]

\* handleMetadata for the list it closes over: setRecordingDimensions and
\* setNormalizedEffects.  When several are registered they run in
\* registration order within one event, so the last one's state stands.
handleMetadata(ls, width, height) ==
    [recordingDimensions |-> [recordingWidth |-> width, recordingHeight |-> height],
     normalizedEffects |-> normalized(ls[Len(ls)], width, height)]

\* The audio sync effect returns before it registers any listener when there
\* is no <audio> element: if (!video || !audio) return.
audioSyncListens == audioSrc

\* The browser has the metadata: it sets videoWidth and videoHeight and fires
\* loadedmetadata.  Every registered handleMetadata runs; the audio sync
\* effect's handleLoadedMetadata, registered only when the <audio> element
\* exists, sets the duration.
LoadedMetadata ==
    /\ mounted
    /\ video.readyState = 0
    /\ \E dims \in VideoDims :
        /\ video' = [video EXCEPT !.readyState = 1,
                                  !.videoWidth = dims[1], !.videoHeight = dims[2]]
        /\ IF listeners # <<>>
           THEN LET h == handleMetadata(listeners, dims[1], dims[2])
                IN  /\ recordingDimensions' = h.recordingDimensions
                    /\ normalizedEffects' = h.normalizedEffects
           ELSE UNCHANGED <<recordingDimensions, normalizedEffects>>
    /\ durationState' = (IF audioSyncListens THEN MaxTime ELSE durationState)
    /\ UNCHANGED <<instructions, listeners, loopEffects, loopVars, mounted, audioSrc,
                   isPlaying, transform, rendered, exportVars, pageVars, fnVars>>

-----------------------------------------------------------------------------
(* components/VideoEffectPreview: the render loop *)

\* The scales and translations of all the given effects added up.
RECURSIVE stacked(_, _, _)
stacked(effects, currentTime, i) ==
    IF i > Len(effects)
    THEN [scale |-> JNum(1), translateX |-> JNum(0), translateY |-> JNum(0)]
    ELSE LET rest == stacked(effects, currentTime, i + 1)
             nb == effects[i].normalizedBounds
             z == calculateZoomTransform(
                      computeEffectProgress(currentTime, effects[i].start, effects[i].end,
                                            JRat(1, 4), JRat(1, 4)),
                      nb.centerX, nb.centerY, nb.autoScale)
         IN  [scale |-> JAdd(rest.scale, JSub(z.scale, JNum(1))),
              translateX |-> JAdd(rest.translateX, z.translateX),
              translateY |-> JAdd(rest.translateY, z.translateY)]

\* The render step that stacks the transforms of all active effects.
renderFrame_Stacked(effects, currentTime, oldTransform) ==
    LET activeEffects == getActiveEffects(effects, currentTime)
    IN  IF Len(activeEffects) > 0
        THEN LET effect == resolveZoomEffect(activeEffects)
                 z == stacked(activeEffects, currentTime, 1)
             IN  [active |-> activeEffects, effect |-> effect,
                  progress |-> computeEffectProgress(currentTime, effect.start,
                                   effect.end, JRat(1, 4), JRat(1, 4)),
                  transform |-> buildTransformString(z.translateX, z.translateY, z.scale)]
        ELSE [active |-> activeEffects, effect |-> NULL, progress |-> JNum(0),
              transform |-> IdentityTransform]

\* The render step that leaves the transform alone when no effect is active.
renderFrame_KeepWhenIdle(effects, currentTime, oldTransform) ==
    LET activeEffects == getActiveEffects(effects, currentTime)
    IN  IF Len(activeEffects) > 0
        THEN LET effect == resolveZoomEffect(activeEffects)
                 nb == effect.normalizedBounds
                 progress == computeEffectProgress(currentTime, effect.start,
                                 effect.end, JRat(1, 4), JRat(1, 4))
                 z == calculateZoomTransform(progress, nb.centerX, nb.centerY,
                                             nb.autoScale)
             IN  [active |-> activeEffects, effect |-> effect, progress |-> progress,
                  transform |-> buildTransformString(z.translateX, z.translateY, z.scale)]
        ELSE [active |-> activeEffects, effect |-> NULL, progress |-> JNum(0),
              transform |-> oldTransform]

\* The body of renderFrame up to the write of style.transform: the effect it
\* draws from (NULL when none) and the transform it leaves on the layer.
renderFrame(effects, currentTime, oldTransform) ==
    LET activeEffects == getActiveEffects(effects, currentTime)
    IN  IF Len(activeEffects) > 0
        THEN LET effect == resolveZoomEffect(activeEffects)
             IN  IF effect # NULL
                 THEN LET nb == effect.normalizedBounds
                          targetScale == IF Truthy(nb.autoScale) THEN nb.autoScale
                                         ELSE JNum(effect.style.zoom.scale)
                          progress == computeEffectProgress(currentTime, effect.start,
                                          effect.end, JRat(1, 4), JRat(1, 4))
                          z == calculateZoomTransform(progress, nb.centerX, nb.centerY,
                                                      targetScale)
                      IN  [active |-> activeEffects, effect |-> effect, progress |-> progress,
                           transform |-> buildTransformString(z.translateX, z.translateY,
                                                              z.scale)]
                 ELSE [active |-> activeEffects, effect |-> NULL, progress |-> JNum(0),
                       transform |-> oldTransform]
        ELSE [active |-> activeEffects, effect |-> NULL, progress |-> JNum(0),
              transform |-> IdentityTransform]

\* The cleanup that leaves the pending callback alone.
CancelPending_LeavesCallback == rafQueue

\* if (rafRef.current) cancelAnimationFrame(rafRef.current): the callbacks
\* left pending.  rafRef.current always holds the id requested last.
CancelPending ==
    IF rafRef = "live" THEN SubSeq(rafQueue, 1, Len(rafQueue) - 1) ELSE rafQueue

\* The loop that stops for a pause only.
keepLooping_IgnoresEnded(v) ==
    ~v.paused

\* Continue loop if playing: if (!video.paused && !video.ended)
keepLooping(v) ==
    ~v.paused /\ ~v.ended

\* An animation-frame callback runs, the oldest first: renderFrame with the
\* effect list it closes over, then the next request of the same renderFrame
\* while the video is neither paused nor ended.  After unmount there is no
\* video layer to write to.
RenderFrame ==
    /\ rafQueue # <<>>
    /\ LET effects == Head(rafQueue)
           r == renderFrame(effects, video.currentTime, transform)
           ranLive == rafRef = "live" /\ Len(rafQueue) = 1
       IN  /\ transform' = (IF mounted THEN r.transform ELSE transform)
           /\ rendered' = [time |-> video.currentTime, effects |-> effects,
                           active |-> r.active, effect |-> r.effect,
                           progress |-> r.progress]
           /\ IF keepLooping(video)
              THEN rafRef' = "live" /\ rafQueue' = Append(Tail(rafQueue), effects)
              ELSE /\ rafRef' = (IF ranLive THEN "stale" ELSE rafRef)
                   /\ rafQueue' = Tail(rafQueue)
    /\ UNCHANGED <<instructions, video, recordingDimensions, normalizedEffects, listeners,
                   loopEffects, mounted, audioSrc, playerVars, exportVars, pageVars, fnVars>>

\* The render-loop effect runs again for a new normalizedEffects, some time
\* after the state was set: the cleanup of the previous run removes its play
\* and pause listeners and cancels the pending callback, then the new run
\* registers its own and requests a frame when the video is already playing.
RenderLoopEffect ==
    /\ mounted
    /\ loopEffects # normalizedEffects
    /\ loopEffects' = normalizedEffects
    /\ IF ~video.paused /\ ~video.ended
       THEN rafRef' = "live" /\ rafQueue' = Append(CancelPending, normalizedEffects)
       ELSE /\ rafRef' = (IF rafRef = "live" THEN "stale" ELSE rafRef)
            /\ rafQueue' = CancelPending
    /\ UNCHANGED <<instructions, video, recordingDimensions, normalizedEffects, listeners,
                   mounted, audioSrc, playerVars, transform, rendered, exportVars,
                   pageVars, fnVars>>

\* The most handleMetadata listeners one run of the model registers.
MaxListeners == 2

\* The instructions the parent hands over in place of the current ones: an
\* object without displayEffects, an empty list, one effect, two effects.
PropsSet ==
    { [version |-> 1],
      [displayEffects |-> <<>>],
      [displayEffects |-> <<Effect(0, 5, [bounds |-> BoxA], TRUE)>>],
      [displayEffects |-> <<Effect(2, 4, [bounds |-> BoxB], TRUE),
                            Effect(1, 4, [bounds |-> BoxA], FALSE)>>] }

\* The parent passes new instructions: the normalization effect runs again.
\* With metadata already loaded the new handleMetadata runs at once.
ChangeInstructions ==
    /\ mounted
    /\ \E next \in PropsSet :
        /\ next # instructions
        /\ HasDisplayEffects(next) => Len(listeners) < MaxListeners
        /\ instructions' = next
        /\ listeners' = registered(next, listeners)
        /\ IF HasDisplayEffects(next) /\ video.readyState >= 1
           THEN LET h == handleMetadata(listeners', video.videoWidth, video.videoHeight)
                IN  /\ recordingDimensions' = h.recordingDimensions
                    /\ normalizedEffects' = h.normalizedEffects
           ELSE UNCHANGED <<recordingDimensions, normalizedEffects>>
    /\ UNCHANGED <<video, loopEffects, loopVars, mounted, audioSrc, playerVars, transform,
                   rendered, exportVars, pageVars, fnVars>>

\* The component unmounts: the render-loop effect's cleanup runs.
Unmount ==
    /\ mounted
    /\ mounted' = FALSE
    /\ rafRef' = (IF rafRef = "live" THEN "stale" ELSE rafRef)
    /\ rafQueue' = CancelPending
    /\ UNCHANGED <<instructions, video, recordingDimensions, normalizedEffects, listeners,
                   loopEffects, audioSrc, playerVars, transform, rendered, exportVars,
                   pageVars, fnVars>>

\* handlePlayPause on a paused video: video.play(), whose play event runs the
\* render loop's handlePlay and the audio sync effect's handlePlay.  Playing
\* an ended video starts over from 0.
Play ==
    /\ mounted
    /\ video.paused
    /\ video' = [video EXCEPT !.paused = FALSE,
                              !.currentTime = IF video.ended THEN 0 ELSE @,
                              !.ended = FALSE]
    /\ rafRef' = "live"
    /\ rafQueue' = Append(CancelPending, loopEffects)
    /\ isPlaying' = (IF audioSyncListens THEN TRUE ELSE isPlaying)
    /\ UNCHANGED <<instructions, recordingDimensions, normalizedEffects, listeners,
                   loopEffects, mounted, audioSrc, durationState, transform, rendered,
                   exportVars, pageVars, fnVars>>

\* handlePlayPause on a playing video: video.pause(), whose pause event runs
\* both handlePause.  The browser pauses an ended video the same way.
Pause ==
    /\ mounted
    /\ ~video.paused
    /\ video' = [video EXCEPT !.paused = TRUE]
    /\ rafRef' = "null"
    /\ rafQueue' = CancelPending
    /\ isPlaying' = (IF audioSyncListens THEN FALSE ELSE isPlaying)
    /\ UNCHANGED <<instructions, recordingDimensions, normalizedEffects, listeners,
                   loopEffects, mounted, audioSrc, durationState, transform, rendered,
                   exportVars, pageVars, fnVars>>

\* Playback advances by one tick; at the end of the media the video has ended.
Tick ==
    /\ mounted
    /\ ~video.paused /\ ~video.ended
    /\ video.readyState = 1
    /\ video.currentTime < MaxTime
    /\ video' = [video EXCEPT !.currentTime = @ + 1,
                              !.ended = (video.currentTime + 1 = MaxTime)]
    /\ UNCHANGED <<instructions, recordingDimensions, normalizedEffects, listeners,
                   loopEffects, loopVars, mounted, audioSrc, playerVars, transform,
                   rendered, exportVars, pageVars, fnVars>>

\* handleSeek: the timeline slider, whose range is 0 to the duration state,
\* sets video.currentTime.
handleSeek ==
    /\ mounted
    /\ \E seekTime \in 0..durationState :
        /\ seekTime # video.currentTime
        /\ video' = [video EXCEPT !.currentTime = seekTime,
                                  !.ended = (seekTime = MaxTime)]
    /\ UNCHANGED <<instructions, recordingDimensions, normalizedEffects, listeners,
                   loopEffects, loopVars, mounted, audioSrc, playerVars, transform,
                   rendered, exportVars, pageVars, fnVars>>

-----------------------------------------------------------------------------
(* components/VideoEffectPreview: export *)

\* The most batch requests one run of the model sends.
MaxRequests == 2

\* The failure status that forgets to clear loading.
Failed_StillLoading(error) == [loading |-> TRUE, error |-> error, success |-> NULL]

\* setExportStatus({ loading: false, error, success: null })
Failed(error) == [loading |-> FALSE, error |-> error, success |-> NULL]

\* The three checks before loading is set: the message of the one that
\* returns early, "" when none does.
precheck(instr, dims) ==
    IF ~(HasDisplayEffects(instr) /\ Len(instr.displayEffects) > 0)
    THEN "No effects to export"
    ELSE IF dims = NULL
    THEN "Video not loaded yet - wait for video to load"
    ELSE IF dims.recordingWidth = 0 \/ dims.recordingHeight = 0
    THEN "Invalid video dimensions"
    ELSE ""

\* The frame that carries a derived ratio next to its two dimensions.
frameSize_WithRatio(dims) ==
    [width |-> dims.recordingWidth, height |-> dims.recordingHeight,
     aspectRatio |-> JDiv(JNum(dims.recordingWidth), JNum(dims.recordingHeight))]

\* const frameSize = { width: recordingWidth, height: recordingHeight }
frameSize(dims) == [width |-> dims.recordingWidth, height |-> dims.recordingHeight]

\* The loop that checks the first instruction only.
validateAll_FirstOnly(pureInstructions, i) ==
    IF i > Len(pureInstructions) \/ i > 1 THEN NULL
    ELSE LET validation == validateZoomInstruction(pureInstructions[i])
             purity == checkInstructionPurity(pureInstructions[i])
         IN  IF ~validation.valid
             THEN [message |-> "validation failed", instruction |-> i,
                   fields |-> validation.errors]
             ELSE IF ~purity.clean
             THEN [message |-> "contains forbidden fields", instruction |-> i,
                   fields |-> purity.violations]
             ELSE NULL

\* The validation loop: the error thrown at the first instruction that fails
\* validation or, having passed it, purity; NULL when every instruction passes.
RECURSIVE validateAll(_, _)
validateAll(pureInstructions, i) ==
    IF i > Len(pureInstructions) THEN NULL
    ELSE LET validation == validateZoomInstruction(pureInstructions[i])
             purity == checkInstructionPurity(pureInstructions[i])
         IN  IF ~validation.valid
             THEN [message |-> "validation failed", instruction |-> i,
                   fields |-> validation.errors]
             ELSE IF ~purity.clean
             THEN [message |-> "contains forbidden fields", instruction |-> i,
                   fields |-> purity.violations]
             ELSE validateAll(pureInstructions, i + 1)

\* handleExport up to the await: the status it leaves and the request it sends.
exportOutcome(instr, dims) ==
    LET pre == precheck(instr, dims)
    IN  IF pre # ""
        THEN [status |-> Failed([message |-> pre]), sent |-> <<>>]
        ELSE LET pureInstructions == generateZoomInstructions(instr.displayEffects,
                                                              frameSize(dims))
                 thrown == validateAll(pureInstructions, 1)
                 submit == submitBatchZoomInstructions(pureInstructions)
             IN  IF thrown # NULL
                 THEN [status |-> Failed(thrown), sent |-> <<>>]
                 ELSE IF submit.threw
                 THEN [status |-> Failed([message |-> submit.message]), sent |-> <<>>]
                 ELSE [status |-> [loading |-> TRUE, error |-> NULL, success |-> NULL],
                       sent |-> submit.sent]

\* The export button that stays enabled while an export is loading.
exportDisabled_IgnoresLoading(status, instr) ==
    ~(HasDisplayEffects(instr) /\ Len(instr.displayEffects) > 0)

\* disabled={exportStatus.loading || !instructions?.displayEffects?.length}
exportDisabled(status, instr) ==
    status.loading \/ ~(HasDisplayEffects(instr) /\ Len(instr.displayEffects) > 0)

\* A click on the export button, which is disabled while an export is loading
\* and while there are no display effects.
handleExport ==
    /\ mounted
    /\ ~exportDisabled(exportStatus, instructions)
    /\ Len(requests) < MaxRequests
    /\ LET out == exportOutcome(instructions, recordingDimensions)
       IN  /\ exportStatus' = out.status
           /\ requests' = requests \o out.sent
    /\ UNCHANGED <<instructions, video, recordingDimensions, normalizedEffects, listeners,
                   loopEffects, loopVars, mounted, audioSrc, playerVars, transform,
                   rendered, settled, pageVars, fnVars>>

\* The batch request settles: the response on success, the error otherwise.
ExportSettles ==
    /\ exportStatus.loading
    /\ \E response \in Responses :
        exportStatus' =
            IF response = "ok"
            THEN [loading |-> FALSE, error |-> NULL,
                  success |-> [status |-> "success", outputVideoPath |-> "/videos/output.mp4"]]
            ELSE Failed([message |-> "HTTP 500"])
    /\ settled' = settled + 1
    /\ UNCHANGED <<instructions, video, recordingDimensions, normalizedEffects, listeners,
                   loopEffects, loopVars, mounted, audioSrc, playerVars, transform,
                   rendered, requests, pageVars, fnVars>>

-----------------------------------------------------------------------------
(* The component as a state machine *)

Next ==
    \/ LoadedMetadata
    \/ ChangeInstructions
    \/ RenderLoopEffect
    \/ Unmount
    \/ RenderFrame
    \/ Play
    \/ Pause
    \/ Tick
    \/ handleSeek
    \/ handleExport
    \/ ExportSettles

Spec == Init /\ [][Next]_vars

\* With the instructions fixed and the component mounted, the export handlers
\* write exportStatus, requests and settled only, and read only instructions
\* and recordingDimensions; the playback handlers neither read nor write
\* what an export writes.  LoadedMetadata, which sets recordingDimensions,
\* belongs to both halves.

NextPreview ==
    \/ LoadedMetadata
    \/ RenderLoopEffect
    \/ RenderFrame
    \/ Play
    \/ Pause
    \/ Tick
    \/ handleSeek

\* The display effects that differ for the preview: two overlapping windows,
\* a tiny box, a window of no length, a disabled zoom and a target without
\* bounds.  Boxes that only the export checks tell apart are left out.
PreviewPool ==
    { Effect(0, 5, [bounds |-> BoxA], TRUE),
      Effect(2, 4, [bounds |-> BoxB], TRUE),
      Effect(0, 3, [bounds |-> BoxTiny], TRUE),
      Effect(3, 3, [bounds |-> BoxB], TRUE),
      Effect(1, 4, [bounds |-> BoxA], FALSE),
      Effect(1, 4, [selector |-> "button"], TRUE) }

InitPreview ==
    /\ instructions \in {NULL, [version |-> 1]}
                        \cup {[displayEffects |-> s] : s \in SeqsUpTo(PreviewPool, MaxEffects)}
    /\ audioSrc = TRUE
    /\ InitComponent
    /\ InitPages
    /\ fnCall = [op |-> "none"]
    /\ fnRet = NULL

SpecPreview == InitPreview /\ [][NextPreview]_vars

NextExport ==
    \/ LoadedMetadata
    \/ handleExport
    \/ ExportSettles

SpecExport == Init /\ [][NextExport]_vars

\* The life of the component under a parent that replaces the instructions
\* and unmounts it, with and without an audio track: playback runs on its
\* own, the slider is left alone.
InitLifecycle ==
    /\ instructions \in PropsSet
    /\ audioSrc \in BOOLEAN
    /\ InitComponent
    /\ InitPages
    /\ fnCall = [op |-> "none"]
    /\ fnRet = NULL

NextLifecycle ==
    \/ LoadedMetadata
    \/ ChangeInstructions
    \/ RenderLoopEffect
    \/ Unmount
    \/ RenderFrame
    \/ Play
    \/ Pause
    \/ Tick

SpecLifecycle == InitLifecycle /\ [][NextLifecycle]_vars

-----------------------------------------------------------------------------
(* components/ProcessingPage *)

\* The app on one of its two pages; the preview has no instructions.
InitOnPage ==
    /\ instructions = NULL
    /\ audioSrc = TRUE
    /\ InitComponent
    /\ InitPages
    /\ fnCall = [op |-> "none"]
    /\ fnRet = NULL

\* The most processing runs one run of the model starts.
MaxRuns == 2

\* What stays as it is while the processing page acts.
processingFrame == <<sess, fnVars, instructions, video, recordingDimensions,
                     normalizedEffects, rafRef, rafQueue, listeners, loopEffects, mounted,
                     audioSrc, isPlaying, durationState, transform, rendered, exportStatus,
                     requests, settled>>

\* checkHealth settles.
HealthSettles ==
    /\ proc.backendStatus = "null"
    /\ \E status \in {"healthy", "unhealthy"} :
        proc' = [proc EXCEPT !.backendStatus = status]
    /\ UNCHANGED processingFrame

\* handleFileChange with a file chosen.
handleFileChange ==
    /\ proc' = [proc EXCEPT !.file = TRUE, !.error = "null"]
    /\ proc' # proc
    /\ UNCHANGED processingFrame

\* handleProcess, from the button that is disabled without a file and while
\* processing: a new session id, then the file is read.
handleProcess ==
    /\ proc.file /\ ~proc.processing
    /\ proc.reader = "idle" /\ proc.request # "pending"
    /\ proc.sessionId < MaxRuns
    /\ proc' = [proc EXCEPT !.processing = TRUE, !.error = "null", !.results = "null",
                            !.sessionId = @ + 1, !.progress = 0, !.completed = FALSE,
                            !.reader = "reading", !.request = "idle"]
    /\ UNCHANGED processingFrame

\* The FileReader settles: onload sends processRecording, onerror gives up.
ReaderSettles ==
    /\ proc.reader = "reading"
    /\ \E loaded \in BOOLEAN :
        proc' = IF loaded
                THEN [proc EXCEPT !.reader = "idle", !.request = "pending"]
                ELSE [proc EXCEPT !.reader = "idle", !.error = "Failed to read file",
                                  !.processing = FALSE]
    /\ UNCHANGED processingFrame

\* processRecording settles: accepted, the page waits for the WebSocket;
\* rejected, the catch reports the error and ends the run.
RequestSettles ==
    /\ proc.request = "pending"
    /\ \E response \in Responses :
        proc' = IF response = "ok"
                THEN [proc EXCEPT !.request = "accepted"]
                ELSE [proc EXCEPT !.request = "rejected", !.error = "HTTP 500",
                                  !.processing = FALSE]
    /\ UNCHANGED processingFrame

\* The most progress messages the WebSocket delivers for one session.
MaxProgress == 2

\* useProcessingWebSocket delivers a progress message for the current
\* session: the page renders again and shows it.
WebSocketProgress ==
    /\ proc.request \in {"pending", "accepted"}
    /\ ~proc.completed
    /\ proc.progress < MaxProgress
    /\ proc' = [proc EXCEPT !.progress = @ + 1]
    /\ UNCHANGED processingFrame

\* useProcessingWebSocket reports the pipeline of the current session
\* complete: the page renders again with completed true.  No effect depends
\* on completed, so nothing else runs.
WebSocketCompleted ==
    /\ proc.request = "accepted"
    /\ ~proc.completed
    /\ proc' = [proc EXCEPT !.completed = TRUE]
    /\ UNCHANGED processingFrame

NextProcessing ==
    \/ HealthSettles
    \/ handleFileChange
    \/ handleProcess
    \/ ReaderSettles
    \/ RequestSettles
    \/ WebSocketProgress
    \/ WebSocketCompleted

\* The page on its own; the preview stays as mounted.
SpecProcessing == InitOnPage /\ [][NextProcessing]_vars

-----------------------------------------------------------------------------
(* components/RecordingSessionPage *)

\* How a call of play() may end.
PlayOutcomes == {"ok", "rejected"}

\* The most Promise.all of togglePlayPause that wait at one time.
MaxSettling == 1

\* What stays as it is while the session page acts.
sessionFrame == <<proc, fnVars, instructions, video, recordingDimensions, normalizedEffects,
                  rafRef, rafQueue, listeners, loopEffects, mounted, audioSrc, isPlaying,
                  durationState, transform, rendered, exportStatus, requests, settled>>

\* play() on a media element: fulfilled, the element plays (an ended video
\* from the start); rejected, the element stays as it is.
played(media, outcome) ==
    IF outcome = "ok"
    THEN [media EXCEPT !.paused = FALSE, !.play = "ok"]
    ELSE [media EXCEPT !.play = "rejected"]

\* togglePlayPause.  Playing: pause both, setIsPlaying(false).  Not playing:
\* call play() on both, each with a catch that logs, and wait for both.
togglePlayPause ==
    IF sess.isPlaying
    THEN /\ sess' = [sess EXCEPT !.isPlaying = FALSE,
                                 !.video.paused = TRUE, !.audio.paused = TRUE]
         /\ UNCHANGED sessionFrame
    ELSE /\ sess.settling < MaxSettling
         /\ \E videoOutcome \in PlayOutcomes, audioOutcome \in PlayOutcomes :
              LET v == played(sess.video, videoOutcome)
              IN  sess' = [sess EXCEPT
                             !.video = IF videoOutcome = "ok" /\ sess.video.ended
                                       THEN [v EXCEPT !.ended = FALSE, !.currentTime = 0]
                                       ELSE v,
                             !.audio = played(sess.audio, audioOutcome),
                             !.settling = @ + 1]
         /\ UNCHANGED sessionFrame

\* Promise.all(playPromises).then: both promises are fulfilled, also the ones
\* whose play() was rejected, because each carries its own catch.
PlaySettles ==
    /\ sess.settling > 0
    /\ sess' = [sess EXCEPT !.isPlaying = TRUE, !.settling = @ - 1]
    /\ UNCHANGED sessionFrame

\* The video plays on by one tick; at the end the browser pauses it and
\* queues the ended event.
SessionTick ==
    /\ ~sess.video.paused /\ ~sess.video.ended
    /\ sess' = [sess EXCEPT
                  !.video.currentTime = @ + 1,
                  !.video.ended = (sess.video.currentTime + 1 = MaxTime),
                  !.video.paused = (sess.video.currentTime + 1 = MaxTime),
                  !.video.endedEvent = (sess.video.currentTime + 1 = MaxTime)]
    /\ UNCHANGED sessionFrame

\* handleEnded: setIsPlaying(false); audio.pause(); video.pause().
handleEnded ==
    /\ sess.video.endedEvent
    /\ sess' = [sess EXCEPT !.isPlaying = FALSE, !.video.endedEvent = FALSE,
                            !.video.paused = TRUE, !.audio.paused = TRUE]
    /\ UNCHANGED sessionFrame

NextSession ==
    \/ togglePlayPause
    \/ PlaySettles
    \/ SessionTick
    \/ handleEnded

\* The page on its own; the preview stays as mounted.
SpecSession == InitOnPage /\ [][NextSession]_vars

\* Display effects whose windows are long against the tick: an ease phase
\* (a quarter of the window) lasts two ticks.  The second and third windows
\* open while the first is in its hold phase.
LongPool ==
    { Effect(0, 8, [bounds |-> BoxA], TRUE),
      Effect(3, 11, [bounds |-> BoxA], TRUE),
      Effect(4, 12, [bounds |-> BoxB], TRUE) }

\* The component mounted with a timeline of long windows.
InitLong ==
    /\ instructions \in {[displayEffects |-> s] : s \in SeqsUpTo(LongPool, MaxEffects)}
    /\ audioSrc = TRUE
    /\ InitComponent
    /\ InitPages
    /\ fnCall = [op |-> "none"]
    /\ fnRet = NULL

SpecLong == InitLong /\ [][NextPreview]_vars

-----------------------------------------------------------------------------
(* The pure functions applied to bounded inputs *)

\* The longest list handed to resolveZoomEffect.
MaxList == 3

FrameInputs ==
    { [width |-> 400, height |-> 200], [width |-> 0, height |-> 200],
      [width |-> 400, height |-> -1], [width |-> 400], [height |-> 200] }

BoxInputs == [x : {-5, 0, 390}, y : {-1, 0, 195}, width : {0, 20}, height : {-2, 10}]

InstructionInputs ==
    [effect : {"zoom"}, startTimeMs : {1000}, durationMs : {-1000, 0, 2000},
     frame : FrameInputs, boundingBox : BoxInputs]

\* Each behaviour applies one function once to one input.
InitFn ==
    /\ instructions = NULL
    /\ audioSrc = TRUE
    /\ InitComponent
    /\ InitPages
    /\ fnCall = [op |-> "none"]
    /\ fnRet = NULL

ApplyGetActiveEffects ==
    /\ fnCall.op = "none"
    /\ \E effects \in SeqsUpTo(EffectPool, MaxEffects), currentTime \in 0..MaxTime :
        /\ fnCall' = [op |-> "getActiveEffects", effects |-> effects,
                      currentTime |-> currentTime]
        /\ fnRet' = getActiveEffects(effects, currentTime)
    /\ UNCHANGED compVars

ApplyResolveZoomEffect ==
    /\ fnCall.op = "none"
    /\ \E effects \in SeqsUpTo(EffectPool, MaxList) :
        /\ fnCall' = [op |-> "resolveZoomEffect", effects |-> effects]
        /\ fnRet' = resolveZoomEffect(effects)
    /\ UNCHANGED compVars

\* The ease fractions handed to computeEffectProgress; 1/4 is the default and
\* what renderFrame passes.
EaseFractions == {JNum(0), JRat(1, 4), JRat(1, 2), JRat(3, 4)}

ApplyComputeEffectProgress ==
    /\ fnCall.op = "none"
    /\ \E currentTime \in -1..(MaxTime + 1), start \in 0..MaxTime, end \in 0..MaxTime,
          easeInPercent \in EaseFractions, easeOutPercent \in EaseFractions :
        /\ fnCall' = [op |-> "computeEffectProgress", currentTime |-> currentTime,
                      start |-> start, end |-> end,
                      easeInPercent |-> easeInPercent, easeOutPercent |-> easeOutPercent]
        /\ fnRet' = computeEffectProgress(currentTime, start, end,
                                          easeInPercent, easeOutPercent)
    /\ UNCHANGED compVars

\* The finest grid on which easeInOutCubic is applied: the arguments k/n with
\* 0 <= k <= n <= EaseGrid.
EaseGrid == 8

ApplyEaseInOutCubic ==
    /\ fnCall.op = "none"
    /\ \E n \in 1..EaseGrid :
        \E k \in 0..n :
            /\ fnCall' = [op |-> "easeInOutCubic", k |-> k, n |-> n, t |-> JRat(k, n)]
            /\ fnRet' = easeInOutCubic(JRat(k, n))
    /\ UNCHANGED compVars

\* The number of ticks in one ease phase of the long window [0, FineSteps] on
\* which the progress is sampled with the default fractions; a phase is a
\* quarter of the window.
EasePhaseTicks == 12

FineSteps == 4 * EasePhaseTicks

ApplyComputeEffectProgressFine ==
    /\ fnCall.op = "none"
    /\ \E currentTime \in 0..FineSteps :
        /\ fnCall' = [op |-> "computeEffectProgress", currentTime |-> currentTime,
                      start |-> 0, end |-> FineSteps,
                      easeInPercent |-> JRat(1, 4), easeOutPercent |-> JRat(1, 4)]
        /\ fnRet' = computeEffectProgress(currentTime, 0, FineSteps, JRat(1, 4), JRat(1, 4))
    /\ UNCHANGED compVars

\* Progress values, centres and target scales handed to calculateZoomTransform.
ProgressInputs == {JNum(0), JRat(4, 125), JRat(1, 2), JRat(121, 125), JNum(1)}
CenterInputs == {JNum(0), JRat(61, 2), JNum(145)}
ScaleInputs == {JNum(1), JRat(19, 16), JNum(2), JRat(5, 2)}

ApplyCalculateZoomTransform ==
    /\ fnCall.op = "none"
    /\ \E progress \in ProgressInputs, centerX \in CenterInputs, centerY \in CenterInputs,
          targetScale \in ScaleInputs :
        /\ fnCall' = [op |-> "calculateZoomTransform", progress |-> progress,
                      centerX |-> centerX, centerY |-> centerY, targetScale |-> targetScale]
        /\ fnRet' = calculateZoomTransform(progress, centerX, centerY, targetScale)
    /\ UNCHANGED compVars

\* Frames and bounding boxes handed to normalizeCoordinates.  In the 400 x 200
\* frame the widths and heights put effectiveRatio on, just below and just
\* above the tier boundaries 0.01, 0.1 and 0.5; the last box is the README's
\* example in a 1920 x 1080 frame.
NormFrames == {<<0, 0>>, <<400, 200>>, <<1920, 1080>>}

NormBoxes ==
    [x : {-5, 0, 120}, y : {0, 60},
     width : {0, 1, 3, 4, 39, 40, 199, 200, 400}, height : {1, 2, 20, 100}]
    \cup {[x |-> 640, y |-> 320, width |-> 240, height |-> 48]}

ApplyNormalizeCoordinates ==
    /\ fnCall.op = "none"
    /\ \E bounds \in NormBoxes, frame \in NormFrames :
        /\ fnCall' = [op |-> "normalizeCoordinates", bounds |-> bounds,
                      recordingWidth |-> frame[1], recordingHeight |-> frame[2]]
        /\ fnRet' = normalizeCoordinates(bounds, frame[1], frame[2], frame[1], frame[2])
    /\ UNCHANGED compVars

ApplyValidateZoomInstruction ==
    /\ fnCall.op = "none"
    /\ \E instruction \in InstructionInputs :
        /\ fnCall' = [op |-> "validateZoomInstruction", instruction |-> instruction]
        /\ fnRet' = validateZoomInstruction(instruction)
    /\ UNCHANGED compVars

\* The longest instruction list handed to submitBatchZoomInstructions.
MaxBatch == 2

\* Instructions that differ in their times, their frames and their boxes.
BatchInputs ==
    { [effect |-> "zoom", startTimeMs |-> 1000, durationMs |-> 2000,
       frame |-> [width |-> 400, height |-> 200], boundingBox |-> BoxA],
      [effect |-> "zoom", startTimeMs |-> 0, durationMs |-> 1000,
       frame |-> [width |-> 1920, height |-> 1080], boundingBox |-> BoxB],
      [effect |-> "zoom", startTimeMs |-> 1000, durationMs |-> 500,
       frame |-> [width |-> 400, height |-> 200], boundingBox |-> BoxB] }

\* The argument is an array, or it is missing (null, undefined); a missing
\* argument fails the same test as the empty array,
\* !instructions || instructions.length === 0.
ApplySubmitBatchZoomInstructions ==
    /\ fnCall.op = "none"
    /\ \E given \in BOOLEAN :
        \E instrs \in (IF given THEN SeqsUpTo(BatchInputs, MaxBatch) ELSE {<<>>}) :
            /\ fnCall' = [op |-> "submitBatchZoomInstructions", given |-> given,
                          instructions |-> instrs]
            /\ fnRet' = submitBatchZoomInstructions(instrs)
    /\ UNCHANGED compVars

NextFn ==
    \/ ApplyGetActiveEffects
    \/ ApplyResolveZoomEffect
    \/ ApplyComputeEffectProgress
    \/ ApplyComputeEffectProgressFine
    \/ ApplyEaseInOutCubic
    \/ ApplyCalculateZoomTransform
    \/ ApplyNormalizeCoordinates
    \/ ApplyValidateZoomInstruction
    \/ ApplySubmitBatchZoomInstructions

SpecFn == InitFn /\ [][NextFn]_vars

-----------------------------------------------------------------------------
(* Properties of the engine's pure functions, checked under SpecFn *)

\* The positions of the effects whose window holds t, both ends included.
ActiveIndices(effects, t) ==
    {i \in 1..Len(effects) : effects[i].start <= t /\ t <= effects[i].end}

\* C8: getActiveEffects(effects, t) returns exactly the effects with
\* start <= t <= end, both bounds inclusive, in their input order: the k-th
\* effect returned is the k-th of the input whose window holds t.
C8_ActiveEffectsInclusiveInOrder ==
    fnCall.op = "getActiveEffects" =>
        LET idx == ActiveIndices(fnCall.effects, fnCall.currentTime)
        IN  /\ Len(fnRet) = Cardinality(idx)
            /\ \A k \in 1..Len(fnRet) :
                 \E i \in idx : /\ fnRet[k] = fnCall.effects[i]
                                /\ Cardinality({j \in idx : j < i}) = k - 1

\* A call at the very end of the window of the second of two effects, the
\* first being inactive.
C8_Witness ==
    /\ fnCall.op = "getActiveEffects"
    /\ Len(fnCall.effects) = 2
    /\ fnCall.effects[2].end = fnCall.currentTime
    /\ fnCall.effects[2].start < fnCall.currentTime
    /\ fnRet = <<fnCall.effects[2]>>

DistinctStarts(effects) ==
    \A i, j \in 1..Len(effects) : i # j => effects[i].start # effects[j].start

\* C6: resolveZoomEffect returns null for the empty list, and for a non-empty
\* list with pairwise distinct starts the effect of the list with the maximum
\* start, wherever it stands in the list.
C6_ResolveLatestStart ==
    fnCall.op = "resolveZoomEffect" =>
        /\ Len(fnCall.effects) = 0 => fnRet = NULL
        /\ (Len(fnCall.effects) > 0 /\ DistinctStarts(fnCall.effects)) =>
             /\ \E i \in 1..Len(fnCall.effects) : fnRet = fnCall.effects[i]
             /\ \A j \in 1..Len(fnCall.effects) : fnCall.effects[j].start <= fnRet.start

\* Three effects with distinct starts, the latest one standing first.
C6_Witness ==
    /\ fnCall.op = "resolveZoomEffect"
    /\ Len(fnCall.effects) = MaxList
    /\ DistinctStarts(fnCall.effects)
    /\ fnRet = fnCall.effects[1]

\* C9: for a window with end > start, computeEffectProgress lies in [0, 1]
\* and is exactly 0 for every t <= start and every t >= end.
C9_ProgressInUnitIntervalZeroOutside ==
    (fnCall.op = "computeEffectProgress" /\ fnCall.end > fnCall.start) =>
        /\ JLe(JNum(0), fnRet) /\ JLe(fnRet, JNum(1))
        /\ (fnCall.currentTime <= fnCall.start \/ fnCall.currentTime >= fnCall.end) =>
             fnRet = JNum(0)

\* A call exactly at the end of a window that has an interior tick.
C9_Witness ==
    /\ fnCall.op = "computeEffectProgress"
    /\ fnCall.end > fnCall.start + 1
    /\ fnCall.currentTime = fnCall.end
    /\ fnRet = JNum(0)

\* What the validation rules forbid, by the field at fault.
FieldOffends(f, instruction) ==
    LET box == instruction.boundingBox
        frame == instruction.frame
    IN  CASE f = "frame.width" -> "width" \notin DOMAIN frame \/ frame.width <= 0
          [] f = "frame.height" -> "height" \notin DOMAIN frame \/ frame.height <= 0
          [] f = "durationMs" -> instruction.durationMs <= 0
          [] f = "boundingBox.width" -> box.width <= 0
          [] f = "boundingBox.height" -> box.height <= 0
          [] f = "boundingBox.x" ->
                box.x < 0 \/ ("width" \in DOMAIN frame /\ box.x + box.width > frame.width)
          [] f = "boundingBox.y" ->
                box.y < 0 \/ ("height" \in DOMAIN frame /\ box.y + box.height > frame.height)
          [] OTHER -> FALSE

ValidatedFields ==
    {"frame.width", "frame.height", "durationMs", "boundingBox.width",
     "boundingBox.height", "boundingBox.x", "boundingBox.y"}

\* C4: validateZoomInstruction returns valid=false, with at least one error
\* and every error naming a field at fault, whenever the box is not inside the
\* frame, a box size or the duration is not positive, or a frame dimension is
\* missing or not positive; it returns valid=true with no errors exactly when
\* none of these holds.
C4_ValidateRejectsExactlyTheInvalid ==
    fnCall.op = "validateZoomInstruction" =>
        LET bad == \E f \in ValidatedFields : FieldOffends(f, fnCall.instruction)
        IN  /\ fnRet.valid = ~bad
            /\ fnRet.valid => fnRet.errors = {}
            /\ bad => /\ fnRet.errors # {}
                      /\ \A f \in fnRet.errors : FieldOffends(f, fnCall.instruction)

\* A box that ends ten pixels past the right edge of a known frame, all else
\* in order: rejected with the x field named.
C4_Witness ==
    /\ fnCall.op = "validateZoomInstruction"
    /\ fnCall.instruction.frame = [width |-> 400, height |-> 200]
    /\ fnCall.instruction.boundingBox = [x |-> 390, y |-> 0, width |-> 20, height |-> 10]
    /\ fnCall.instruction.durationMs > 0
    /\ fnRet = [valid |-> FALSE, errors |-> {"boundingBox.x"}]

\* The position u = (t - start) / (end - start) of a call inside its window.
CallU == JRat(fnCall.currentTime - fnCall.start, fnCall.end - fnCall.start)

\* The ease-in and ease-out phases are positive and do not overlap.
PhasesDisjoint ==
    /\ JGt(fnCall.easeInPercent, JNum(0))
    /\ JGt(fnCall.easeOutPercent, JNum(0))
    /\ JLe(JAdd(fnCall.easeInPercent, fnCall.easeOutPercent), JNum(1))

Within(a, b, c) == JLe(JSub(a, b), c) /\ JLe(JSub(b, a), c)

\* The smaller of the two ease fractions of a call.
MinEase == MathMin(fnCall.easeInPercent, fnCall.easeOutPercent)

\* C12: the progress has no jump at the phase boundaries.  easeInOutCubic(0) = 0
\* and easeInOutCubic(1) = 1, so the ease-in and ease-out ramps end at the
\* hold value 1; at x = 1/2 the value is 1/2, which is what the first branch
\* 4x^3 gives there; and on every grid the value moves by at most three times
\* the step between neighbouring arguments.  For computeEffectProgress with
\* positive, non-overlapping ease fractions the value at a tick differs from
\* the value one tick earlier by at most 3 / (min fraction * duration), the
\* boundary to the hold phase included.
C12_NoJumpAtPhaseBoundaries ==
    /\ fnCall.op = "easeInOutCubic" =>
        /\ fnCall.t = JNum(0) => fnRet = JNum(0)
        /\ fnCall.t = JNum(1) => fnRet = JNum(1)
        /\ fnCall.t = JRat(1, 2) =>
              /\ fnRet = JRat(1, 2)
              /\ fnRet = JMul(JNum(4), MathPow3(fnCall.t))
        /\ fnCall.k >= 1 =>
              Within(fnRet, easeInOutCubic(JRat(fnCall.k - 1, fnCall.n)), JRat(3, fnCall.n))
    /\ (fnCall.op = "computeEffectProgress" /\ fnCall.end > fnCall.start /\ PhasesDisjoint) =>
        LET before == computeEffectProgress(fnCall.currentTime - 1, fnCall.start, fnCall.end,
                                            fnCall.easeInPercent, fnCall.easeOutPercent)
            step == JDiv(JNum(3), JMul(MinEase, JNum(fnCall.end - fnCall.start)))
        IN  /\ Within(fnRet, before, step)
            /\ CallU = fnCall.easeInPercent => fnRet = easeInOutCubic(JNum(1))
            /\ CallU = JSub(JNum(1), fnCall.easeOutPercent) => fnRet = easeInOutCubic(JNum(1))

\* The first tick of the hold phase of the long window: the tick before it is
\* still easing in and is closer to 1 than a hundredth.
C12_Witness ==
    /\ fnCall.op = "computeEffectProgress"
    /\ fnCall.end - fnCall.start >= 40
    /\ CallU = fnCall.easeInPercent
    /\ fnRet = JNum(1)
    /\ LET before == computeEffectProgress(fnCall.currentTime - 1, fnCall.start, fnCall.end,
                                           fnCall.easeInPercent, fnCall.easeOutPercent)
       IN  JLt(before, JNum(1)) /\ JGt(before, JRat(99, 100))

\* C15: calculateZoomTransform returns scale = 1 + (targetScale-1)*progress
\* and translate = -center*(scale-1) on each axis, so the centre is a fixed
\* point of p -> scale*p + translate; progress 0 gives the identity and
\* progress 1 gives scale = targetScale.
C15_ZoomKeepsCentreFixed ==
    fnCall.op = "calculateZoomTransform" =>
        /\ JSub(fnRet.scale, JNum(1)) =
              JMul(JSub(fnCall.targetScale, JNum(1)), fnCall.progress)
        /\ JAdd(fnRet.translateX, JMul(fnCall.centerX, JSub(fnRet.scale, JNum(1)))) = JNum(0)
        /\ JAdd(fnRet.translateY, JMul(fnCall.centerY, JSub(fnRet.scale, JNum(1)))) = JNum(0)
        /\ JAdd(JMul(fnRet.scale, fnCall.centerX), fnRet.translateX) = fnCall.centerX
        /\ JAdd(JMul(fnRet.scale, fnCall.centerY), fnRet.translateY) = fnCall.centerY
        /\ fnCall.progress = JNum(0) =>
              fnRet = [scale |-> JNum(1), translateX |-> JNum(0), translateY |-> JNum(0)]
        /\ fnCall.progress = JNum(1) => fnRet.scale = fnCall.targetScale

\* A half-way zoom towards twice the size about an off-axis centre.
C15_Witness ==
    /\ fnCall.op = "calculateZoomTransform"
    /\ fnCall.progress = JRat(1, 2)
    /\ fnCall.targetScale = JNum(2)
    /\ fnCall.centerX = JNum(145) /\ fnCall.centerY = JRat(61, 2)
    /\ fnRet = [scale |-> JRat(3, 2), translateX |-> JRat(-145, 2),
                translateY |-> JRat(-61, 4)]

\* The call normalizes a box with positive sides that lies inside a frame with
\* positive dimensions.
ValidNormalizeCall ==
    /\ fnCall.op = "normalizeCoordinates"
    /\ fnCall.recordingWidth > 0 /\ fnCall.recordingHeight > 0
    /\ fnCall.bounds.width > 0 /\ fnCall.bounds.height > 0
    /\ fnCall.bounds.x >= 0 /\ fnCall.bounds.y >= 0
    /\ fnCall.bounds.x + fnCall.bounds.width <= fnCall.recordingWidth
    /\ fnCall.bounds.y + fnCall.bounds.height <= fnCall.recordingHeight

\* C16: for a frame with positive dimensions and a box with positive sides
\* inside it, normalizeCoordinates yields anchorX and anchorY in [0, 1], with
\* anchorX = (x + width/2) / frameWidth and anchorY = (y + height/2) / frameHeight.
C16_AnchorsInUnitInterval ==
    ValidNormalizeCall =>
        /\ JLe(JNum(0), fnRet.anchorX) /\ JLe(fnRet.anchorX, JNum(1))
        /\ JLe(JNum(0), fnRet.anchorY) /\ JLe(fnRet.anchorY, JNum(1))
        /\ fnRet.anchorX = JRat(2 * fnCall.bounds.x + fnCall.bounds.width,
                                2 * fnCall.recordingWidth)
        /\ fnRet.anchorY = JRat(2 * fnCall.bounds.y + fnCall.bounds.height,
                                2 * fnCall.recordingHeight)

\* A box that touches the right and bottom edges of the 400 x 200 frame.
C16_Witness ==
    /\ ValidNormalizeCall
    /\ fnCall.recordingWidth = 400
    /\ fnCall.bounds = [x |-> 0, y |-> 0, width |-> 400, height |-> 100]
    /\ fnRet.anchorX = JRat(1, 2) /\ fnRet.anchorY = JRat(1, 4)

\* effectiveRatio and autoScale of every normalization of the input sets.
RatioScalePairs ==
    {LET n == normalizeCoordinates(b, f[1], f[2], f[1], f[2])
     IN  <<n.effectiveRatio, n.autoScale>> : b \in NormBoxes, f \in NormFrames}

\* C17: the autoScale normalizeCoordinates computes lies in [1, 5/2], and it
\* does not increase with effectiveRatio: a normalization with a ratio at
\* least as large has a scale at most as large, and one with a ratio at most
\* as large has a scale at least as large, across the tier boundaries 0.01,
\* 0.1 and 0.5 as well.
C17_AutoScaleMonotoneAndBounded ==
    fnCall.op = "normalizeCoordinates" =>
        /\ JLe(JNum(1), fnRet.autoScale) /\ JLe(fnRet.autoScale, JRat(5, 2))
        /\ \A other \in RatioScalePairs :
              /\ JLe(fnRet.effectiveRatio, other[1]) => JGe(fnRet.autoScale, other[2])
              /\ JLe(other[1], fnRet.effectiveRatio) => JGe(other[2], fnRet.autoScale)

\* A box whose effectiveRatio is exactly the first tier boundary, 0.01: its
\* scale is the top of the middle tier, 1.5.
C17_Witness ==
    /\ fnCall.op = "normalizeCoordinates"
    /\ fnRet.effectiveRatio = JRat(1, 100)
    /\ fnRet.autoScale = JRat(3, 2)
    /\ \E other \in RatioScalePairs :
          JLt(other[1], JRat(1, 100)) /\ JGt(other[2], JRat(3, 2))

\* The larger of two numbers.
Larger(a, b) == IF JLt(a, b) THEN b ELSE a

\* The piecewise-linear table in closed form: 2 - 50r below 0.01,
\* 23/15 - 10r/3 on [0.01, 0.1), 5/4 - r/2 on [0.1, 0.5) and 1 from 0.5 on.
ScaleTable(r) ==
    IF JLt(r, JRat(1, 100)) THEN JSub(JNum(2), JMul(JNum(50), r))
    ELSE IF JLt(r, JRat(1, 10)) THEN JSub(JRat(23, 15), JMul(JRat(10, 3), r))
    ELSE IF JLt(r, JRat(1, 2)) THEN JSub(JRat(5, 4), JMul(JRat(1, 2), r))
    ELSE JNum(1)

\* C18: for a frame with positive dimensions, effectiveRatio is the largest of
\* the area ratio, the width ratio and the height ratio of the box, and
\* autoScale is the piecewise-linear table applied to it; the box 240 x 48 at
\* (640, 320) in a 1920 x 1080 frame has effectiveRatio 0.125 and autoScale
\* 1.1875.
C18_AutoScaleFollowsTable ==
    (/\ fnCall.op = "normalizeCoordinates"
     /\ fnCall.recordingWidth > 0 /\ fnCall.recordingHeight > 0) =>
        LET b == fnCall.bounds
            w == fnCall.recordingWidth
            h == fnCall.recordingHeight
            r == Larger(JRat(b.width * b.height, w * h),
                        Larger(JRat(b.width, w), JRat(b.height, h)))
        IN  /\ fnRet.effectiveRatio = r
            /\ fnRet.autoScale = ScaleTable(r)
            /\ fnRet.endScale = fnRet.autoScale /\ fnRet.startScale = JNum(1)
            /\ (b = [x |-> 640, y |-> 320, width |-> 240, height |-> 48] /\ w = 1920
                    /\ h = 1080) =>
                  /\ fnRet.effectiveRatio = JRat(125, 1000)
                  /\ fnRet.autoScale = JRat(11875, 10000)

\* The README's example box normalized in the 1920 x 1080 frame.
C18_Witness ==
    /\ fnCall.op = "normalizeCoordinates"
    /\ fnCall.bounds = [x |-> 640, y |-> 320, width |-> 240, height |-> 48]
    /\ fnCall.recordingWidth = 1920 /\ fnCall.recordingHeight = 1080
    /\ fnRet.widthRatio = JRat(1, 8)
    /\ fnRet.autoScale = JRat(19, 16)

-----------------------------------------------------------------------------
(* Properties of the export, checked under SpecExport *)

\* Every generated instruction passes validation and the purity check.
AllPass(pureInstructions) ==
    \A i \in 1..Len(pureInstructions) :
        /\ validateZoomInstruction(pureInstructions[i]).valid
        /\ checkInstructionPurity(pureInstructions[i]).clean

\* The error lists an export may report: the validation errors or the
\* forbidden fields of an instruction that fails.
ReportableFields(pureInstructions) ==
    {validateZoomInstruction(pureInstructions[i]).errors : i \in 1..Len(pureInstructions)}
    \cup {checkInstructionPurity(pureInstructions[i]).violations :
            i \in 1..Len(pureInstructions)}

\* C1: a click on export sends a batch request only when every generated
\* instruction passed validateZoomInstruction and checkInstructionPurity; when
\* one fails either check the click sends nothing and leaves an error that
\* carries that instruction's validation errors or forbidden field names.
C1_ExportSendsOnlyCheckedInstructions ==
    [][(handleExport /\ precheck(instructions, recordingDimensions) = "") =>
          LET pureInstructions ==
                  generateZoomInstructions(instructions.displayEffects,
                                           frameSize(recordingDimensions))
          IN  /\ requests' # requests => AllPass(pureInstructions)
              /\ ~AllPass(pureInstructions) =>
                   /\ requests' = requests
                   /\ ~exportStatus'.loading
                   /\ exportStatus'.error # NULL
                   /\ "fields" \in DOMAIN exportStatus'.error
                   /\ exportStatus'.error.fields # {}
                   /\ exportStatus'.error.fields \in ReportableFields(pureInstructions)]_vars

\* An export of two instructions that stopped at the second, nothing sent.
C1_Witness ==
    /\ exportStatus.error # NULL
    /\ "instruction" \in DOMAIN exportStatus.error
    /\ exportStatus.error.instruction = 2
    /\ exportStatus.error.fields # {}
    /\ requests = <<>>

PureKeysOnly(instruction) ==
    /\ DOMAIN instruction = {"effect", "startTimeMs", "durationMs", "frame", "boundingBox"}
    /\ DOMAIN instruction.frame = {"width", "height"}
    /\ DOMAIN instruction.boundingBox = {"x", "y", "width", "height"}

\* C2: at export, for display effects with plain bounding boxes and a frame
\* with positive dimensions, every generated instruction passes
\* checkInstructionPurity and has exactly the keys effect, startTimeMs,
\* durationMs, frame {width, height}, boundingBox {x, y, width, height}: no
\* scale, anchor, easing or ratio field of the preview is in it.
C2_GeneratedInstructionsArePure ==
    ( /\ HasDisplayEffects(instructions)
      /\ recordingDimensions # NULL
      /\ \A i \in 1..Len(instructions.displayEffects) :
            PlainEffect(instructions.displayEffects[i]) ) =>
        ( (recordingDimensions.recordingWidth > 0 /\ recordingDimensions.recordingHeight > 0) =>
            LET pureInstructions ==
                    generateZoomInstructions(instructions.displayEffects,
                                             frameSize(recordingDimensions))
            IN  \A i \in 1..Len(pureInstructions) :
                    /\ checkInstructionPurity(pureInstructions[i]).clean
                    /\ PureKeysOnly(pureInstructions[i]) )

\* Two plain zoom effects normalized for the preview in a known frame.
C2_Witness ==
    /\ HasDisplayEffects(instructions)
    /\ recordingDimensions # NULL
    /\ recordingDimensions.recordingWidth > 0
    /\ Len(instructions.displayEffects) = 2
    /\ \A i \in 1..2 : PlainEffect(instructions.displayEffects[i])
    /\ Len(normalizedEffects) = 2
    /\ Len(generateZoomInstructions(instructions.displayEffects,
                                    frameSize(recordingDimensions))) = 2

\* The positions of the display effects with target.bounds and zoom enabled.
ZoomIndices(displayEffects) ==
    {i \in 1..Len(displayEffects) :
        "bounds" \in DOMAIN displayEffects[i].target /\ displayEffects[i].style.zoom.enabled}

\* C3: generateZoomInstructions emits one instruction per display effect with
\* target.bounds and zoom enabled, in input order and none for the others,
\* with startTimeMs = start*1000, durationMs = (end-start)*1000, the given
\* frame and the effect's original target.bounds; and the effects exported are
\* the effects the preview has normalized.
C3_OneInstructionPerZoomEffect ==
    (HasDisplayEffects(instructions) /\ recordingDimensions # NULL) =>
        LET de == instructions.displayEffects
            frame == frameSize(recordingDimensions)
            pureInstructions == generateZoomInstructions(de, frame)
            idx == ZoomIndices(de)
        IN  /\ Len(pureInstructions) = Cardinality(idx)
            /\ \A k \in 1..Len(pureInstructions) :
                 \E i \in idx :
                    /\ Cardinality({j \in idx : j < i}) = k - 1
                    /\ pureInstructions[k] =
                         [effect |-> "zoom",
                          startTimeMs |-> de[i].start * 1000,
                          durationMs |-> (de[i].end - de[i].start) * 1000,
                          frame |-> frame,
                          boundingBox |-> de[i].target.bounds]
            /\ Len(normalizedEffects) = Len(pureInstructions)
            /\ \A k \in 1..Len(pureInstructions) :
                 /\ pureInstructions[k].startTimeMs = normalizedEffects[k].start * 1000
                 /\ pureInstructions[k].durationMs =
                      (normalizedEffects[k].end - normalizedEffects[k].start) * 1000
                 /\ pureInstructions[k].boundingBox = normalizedEffects[k].target.bounds
                 /\ pureInstructions[k].boundingBox # normalizedEffects[k].normalizedBounds

\* Two display effects of which the first is left out (zoom off) and the
\* second is normalized and exported.
C3_Witness ==
    /\ HasDisplayEffects(instructions)
    /\ recordingDimensions # NULL
    /\ Len(instructions.displayEffects) = 2
    /\ ZoomIndices(instructions.displayEffects) = {2}
    /\ "bounds" \in DOMAIN instructions.displayEffects[1].target
    /\ Len(normalizedEffects) = 1

\* C5: with the recording dimensions unknown or zero at export time (the
\* video metadata not loaded yet, or videoWidth or videoHeight equal to 0), a
\* click on export sends no request and ends with loading=false, an error and
\* success=null.
C5_NoExportWithoutFrameDimensions ==
    [][(handleExport /\ (\/ video.readyState = 0
                         \/ video.videoWidth = 0
                         \/ video.videoHeight = 0
                         \/ recordingDimensions = NULL
                         \/ recordingDimensions.recordingWidth = 0
                         \/ recordingDimensions.recordingHeight = 0)) =>
          /\ requests' = requests
          /\ exportStatus'.loading = FALSE
          /\ exportStatus'.error # NULL
          /\ exportStatus'.success = NULL]_vars

\* An export refused for a video whose metadata reports 0 x 0.
C5_Witness ==
    /\ recordingDimensions # NULL
    /\ recordingDimensions.recordingWidth = 0
    /\ exportStatus = [loading |-> FALSE,
                       error |-> [message |-> "Invalid video dimensions"],
                       success |-> NULL]
    /\ requests = <<>>

-----------------------------------------------------------------------------
(* Properties of the render loop, checked under SpecPreview *)

\* The transform renderFrame derives from one effect at time t.
TransformOf(effect, t) ==
    LET progress == computeEffectProgress(t, effect.start, effect.end, JRat(1, 4), JRat(1, 4))
        nb == effect.normalizedBounds
        z == calculateZoomTransform(progress, nb.centerX, nb.centerY, nb.autoScale)
    IN  buildTransformString(z.translateX, z.translateY, z.scale)

\* C7: after every rendered frame the transform on the video layer is the
\* identity when no effect was active, and otherwise the transform of exactly
\* one effect of the active list, the one resolveZoomEffect returns: with at
\* least one effect active an effect is always chosen, and no two transforms
\* are combined.
C7_TransformFromExactlyOneEffect ==
    "time" \in DOMAIN rendered =>
        /\ rendered.active = getActiveEffects(rendered.effects, rendered.time)
        /\ Len(rendered.active) = 0 => transform = IdentityTransform
        /\ Len(rendered.active) > 0 =>
             /\ rendered.effect # NULL
             /\ \E i \in 1..Len(rendered.active) : rendered.effect = rendered.active[i]
             /\ rendered.effect = resolveZoomEffect(rendered.active)
             /\ transform = TransformOf(rendered.effect, rendered.time)

\* A frame rendered with two windows overlapping, zoomed on the chosen one.
C7_Witness ==
    /\ "time" \in DOMAIN rendered
    /\ Len(rendered.active) = 2
    /\ rendered.active[1] # rendered.active[2]
    /\ transform # IdentityTransform
    /\ transform = TransformOf(rendered.effect, rendered.time)

\* C14: every frame rendered at a time at which no effect of the normalized
\* list is active, the list being still empty included, leaves the explicit
\* identity translate(0px, 0px) scale(1) on the video layer: not the unset
\* transform and not the zoom of the frame before.
C14_IdleFrameSetsIdentity ==
    [][(RenderFrame /\ Len(getActiveEffects(normalizedEffects, video.currentTime)) = 0) =>
          /\ transform' = IdentityTransform
          /\ transform' = <<"translate", JNum(0), JNum(0), "scale", JNum(1)>>
          /\ transform' # <<>>]_vars

\* A frame rendered after the window of a normalized effect has closed.
C14_Witness ==
    /\ "time" \in DOMAIN rendered
    /\ Len(rendered.effects) > 0
    /\ Len(rendered.active) = 0
    /\ rendered.time > rendered.effects[1].end
    /\ transform = IdentityTransform

\* The effect carries the normalizedBounds of its own bounding box in the
\* video's dimensions.
CarriesNormalizedBounds(effect) ==
    /\ "normalizedBounds" \in DOMAIN effect
    /\ effect.normalizedBounds =
          normalizeCoordinates(effect.target.bounds, video.videoWidth, video.videoHeight,
                               video.videoWidth, video.videoHeight)

\* C20: normalization precedes rendering.  The normalized list is empty until
\* the metadata is there and is then whole: one entry per zoom effect of the
\* timeline, each carrying normalizedBounds computed from the video's
\* dimensions, which are the recording dimensions.  A frame that computes a
\* progress and a transform does so for an effect of that whole list; a frame
\* rendered before the list is there chooses no effect and applies the
\* identity.
C20_NormalizationPrecedesRendering ==
    /\ recordingDimensions = NULL => normalizedEffects = <<>>
    /\ normalizedEffects # <<>> =>
          /\ recordingDimensions = [recordingWidth |-> video.videoWidth,
                                    recordingHeight |-> video.videoHeight]
          /\ Len(normalizedEffects) = Cardinality(ZoomIndices(instructions.displayEffects))
          /\ \A k \in 1..Len(normalizedEffects) : CarriesNormalizedBounds(normalizedEffects[k])
    /\ "time" \in DOMAIN rendered =>
          /\ rendered.effect # NULL =>
                /\ rendered.effects = normalizedEffects
                /\ \E k \in 1..Len(normalizedEffects) : rendered.effect = normalizedEffects[k]
                /\ CarriesNormalizedBounds(rendered.effect)
          /\ rendered.effects = <<>> =>
                rendered.effect = NULL /\ transform = IdentityTransform

\* A frame zoomed on the second of two normalized effects.
C20_Witness ==
    /\ "time" \in DOMAIN rendered
    /\ Len(normalizedEffects) = 2
    /\ rendered.effect = normalizedEffects[2]
    /\ rendered.effect # normalizedEffects[1]
    /\ JGt(rendered.progress, JNum(0))
    /\ transform # IdentityTransform

\* The scale printed in a transform string.
ScaleOf(tr) == tr[5]

\* The scale one effect alone gives at time t: 1 outside its window.
CurveScale(effect, t) ==
    calculateZoomTransform(
        computeEffectProgress(t, effect.start, effect.end, JRat(1, 4), JRat(1, 4)),
        effect.normalizedBounds.centerX, effect.normalizedBounds.centerY,
        effect.normalizedBounds.autoScale).scale

\* The changes of scale the easing curves of the given effects make over one
\* tick, anywhere in their windows.
CurveSteps(effects) ==
    {JSub(CurveScale(effects[i], t + 1), CurveScale(effects[i], t)) :
        i \in 1..Len(effects), t \in -1..(2 * MaxTime + 8)}

\* C13: two consecutive rendered frames one tick apart, drawn from the same
\* list of effects, differ in scale by no more than the largest change the
\* easing curve of one of the effects makes over one tick.
C13_NoAbruptScaleJump ==
    [][(/\ RenderFrame
        /\ "time" \in DOMAIN rendered
        /\ rendered.effects = normalizedEffects
        /\ video.currentTime = rendered.time + 1) =>
          \E step \in CurveSteps(normalizedEffects) \cup {JNum(0)} :
              Within(ScaleOf(transform'), ScaleOf(transform), step)]_vars

\* C10: a frame rendered from an effect whose duration is not positive
\* (end <= start) applies no zoom: its transform is the identity.
C10_NonPositiveDurationAppliesNoZoom ==
    ("time" \in DOMAIN rendered /\ rendered.effect # NULL) =>
        (rendered.effect.end <= rendered.effect.start => transform = IdentityTransform)

-----------------------------------------------------------------------------
(* Properties of the component's life, checked under SpecLifecycle *)

\* What a full normalization of the current instructions gives on the loaded
\* video: one normalized entry per zoom-enabled effect with bounds, none when
\* there is no displayEffects list.
CurrentNormalization ==
    IF HasDisplayEffects(instructions)
    THEN normalized(instructions.displayEffects, video.videoWidth, video.videoHeight)
    ELSE <<>>

\* C21: once the video's metadata is loaded, after every change of the
\* instructions (a change to an empty or a missing displayEffects list
\* included) the normalized effect list is exactly the normalization of the
\* current list, so no entry of a superseded list remains or comes back.
C21_ChangeRenormalizes ==
    (mounted /\ video.readyState >= 1) => normalizedEffects = CurrentNormalization

\* The video is playing: neither paused nor ended.
Playing(v) == ~v.paused /\ ~v.ended

\* C22 as stated: a render step runs only while the video is playing, so none
\* runs once the video is paused or has ended; and while the component is
\* mounted and the video is playing, a next render step is pending.
C22_NoFrameAfterPauseOrEnd ==
    [][/\ (RenderFrame => Playing(video))
       /\ ((mounted' /\ Playing(video')) => rafQueue' # <<>>)]_vars

\* C22, amended: no render step runs while the video is paused, and none is
\* pending then; once the video has ended, the one callback that was already
\* pending may still run, and it requests no successor; and while the
\* component is mounted and the video is playing, a next render step is
\* pending.
C22_LoopStopsAtPauseAndEnd ==
    [][/\ (RenderFrame => ~video.paused)
       /\ ((RenderFrame /\ video.ended) => rafQueue' = <<>>)
       /\ (video.paused' => rafQueue' = <<>>)
       /\ ((mounted' /\ Playing(video')) => rafQueue' # <<>>)]_vars

\* The video has ended, is not paused yet, and the callback that was pending
\* has rendered the last position and left nothing pending.
C22_Witness ==
    /\ mounted /\ video.ended /\ ~video.paused
    /\ "time" \in DOMAIN rendered /\ rendered.time = MaxTime
    /\ rafQueue = <<>>

-----------------------------------------------------------------------------
(* Properties of the batch submission, checked under SpecFn *)

\* C23: for a list of instructions submitBatchZoomInstructions sends exactly
\* one payload, made of inputVideoPath, the frame of the first instruction
\* and one effect per instruction in the same order, each effect holding
\* exactly startTimeMs, durationMs and boundingBox with the instruction's
\* values; for an empty or missing list it throws 'No instructions to send'
\* and sends nothing.
C23_BatchPayloadShape ==
    fnCall.op = "submitBatchZoomInstructions" =>
        LET instrs == fnCall.instructions
        IN  IF ~fnCall.given \/ Len(instrs) = 0
            THEN /\ fnRet.threw
                 /\ fnRet.message = "No instructions to send"
                 /\ fnRet.sent = <<>>
            ELSE /\ ~fnRet.threw
                 /\ Len(fnRet.sent) = 1
                 /\ LET payload == fnRet.sent[1]
                    IN  /\ DOMAIN payload = {"inputVideoPath", "frame", "effects"}
                        /\ payload.inputVideoPath = "video.webm"
                        /\ payload.frame = instrs[1].frame
                        /\ Len(payload.effects) = Len(instrs)
                        /\ \A i \in 1..Len(instrs) :
                            /\ DOMAIN payload.effects[i] =
                                  {"startTimeMs", "durationMs", "boundingBox"}
                            /\ payload.effects[i].startTimeMs = instrs[i].startTimeMs
                            /\ payload.effects[i].durationMs = instrs[i].durationMs
                            /\ payload.effects[i].boundingBox = instrs[i].boundingBox

\* Two instructions with different frames were submitted and one payload left.
C23_Witness ==
    /\ fnCall.op = "submitBatchZoomInstructions"
    /\ Len(fnCall.instructions) = 2
    /\ fnCall.instructions[1].frame # fnCall.instructions[2].frame
    /\ Len(fnRet.sent) = 1

-----------------------------------------------------------------------------
(* Ties in the resolver, checked under SpecFn *)

\* The positions of the effects whose start is the largest in the list.
LatestIndices(effects) ==
    {i \in 1..Len(effects) : \A j \in 1..Len(effects) : effects[j].start <= effects[i].start}

\* The smallest member of a non-empty set of positions.
First(S) == CHOOSE i \in S : \A j \in S : i <= j

\* C24: of the effects that share the largest start, resolveZoomEffect
\* returns the one that comes first in the list it is given, whatever else
\* the list holds; the choice depends on the list only.
C24_TieKeepsFirstInList ==
    (fnCall.op = "resolveZoomEffect" /\ Len(fnCall.effects) > 0) =>
        fnRet = fnCall.effects[First(LatestIndices(fnCall.effects))]

\* Two different effects share the largest start and the earlier one won.
C24_Witness ==
    /\ fnCall.op = "resolveZoomEffect"
    /\ \E i, j \in LatestIndices(fnCall.effects) :
        /\ i < j
        /\ fnCall.effects[i] # fnCall.effects[j]
        /\ fnRet = fnCall.effects[i]

-----------------------------------------------------------------------------
(* The preview against the timeline, checked under SpecPreview *)

\* C25: once a frame has been rendered from the current effect list and no
\* further frame is pending, the transform on the video layer is the one the
\* engine computes for the video's current time, or for the tick before it
\* when playback stopped between two frames.
C25_TransformFollowsTimeline ==
    (/\ mounted
     /\ rafQueue = <<>>
     /\ "time" \in DOMAIN rendered
     /\ rendered.effects = normalizedEffects) =>
        \E t \in {video.currentTime, video.currentTime - 1} :
            transform = renderFrame(normalizedEffects, t, transform).transform

-----------------------------------------------------------------------------
(* ProcessingPage, checked under SpecProcessing *)

\* C26: once the WebSocket has reported the current session complete and no
\* fetch of the results is under way, the run is over: processing is false
\* and the page holds the results or the error of the fetch.
C26_CompletionEndsProcessing ==
    (proc.completed /\ proc.sessionId # 0 /\ proc.fetch = "idle") =>
        (~proc.processing /\ (proc.results = "data" \/ proc.error # "null"))

-----------------------------------------------------------------------------
(* The render loop's callbacks, checked under SpecLifecycle *)

-----------------------------------------------------------------------------
(* exportStatus as a state machine, checked under SpecExport *)

\* The batch requests sent and not yet settled.
InFlight == Len(requests) - settled

\* C28: error and success are never both set; loading is true exactly while
\* one batch request is in flight, and never more than one is; and once a
\* request has settled and nothing is loading, exactly one of error and
\* success is set.
C28_ExportStatusStateMachine ==
    /\ ~(exportStatus.error # NULL /\ exportStatus.success # NULL)
    /\ InFlight \in {0, 1}
    /\ exportStatus.loading <=> (InFlight = 1)
    /\ (settled > 0 /\ ~exportStatus.loading) =>
          ((exportStatus.error # NULL) # (exportStatus.success # NULL))

\* A first export has settled and a second one is in flight.
C28_Witness ==
    /\ settled = 1
    /\ Len(requests) = 2
    /\ exportStatus.loading

-----------------------------------------------------------------------------
(* The player state, checked under SpecLifecycle *)

\* C29: with or without an audio track, isPlaying is true exactly while the
\* video is not paused, and once the metadata is loaded the duration state is
\* the video's duration.
C29_PlayerStateFollowsVideo ==
    mounted =>
        /\ isPlaying = ~video.paused
        /\ video.readyState >= 1 => durationState = MaxTime

-----------------------------------------------------------------------------
(* RecordingSessionPage, checked under SpecSession *)

\* C30: isPlaying is true only when the last play() of the video and of the
\* audio track both succeeded; and when isPlaying is false and no play is
\* being waited for (after a pause, after the ended event), both media are
\* paused.
C30_PlayingOnlyWhenBothStarted ==
    /\ sess.isPlaying => (sess.video.play = "ok" /\ sess.audio.play = "ok")
    /\ (~sess.isPlaying /\ sess.settling = 0) => (sess.video.paused /\ sess.audio.paused)

=============================================================================
